---- MODULE Spec2Model ----
(***************************************************************************)
(* State-machine model of the Ananas kernel core:                          *)
(*   - the round-robin thread scheduler   (kernel/kern/scheduler.c)        *)
(*   - the VFS dentry cache               (kernel/vfs/dentry.cpp)          *)
(*   - the page-fault handler             (kernel/vm/vmfault.cpp)          *)
(*   - the UHCI host controller driver    (kernel/dev/usb/hcd/uhci-hcd.cpp)*)
(* Pointers are small integers, 0 is the NULL pointer.                     *)
(***************************************************************************)
EXTENDS Integers, Sequences, FiniteSets, TLC

VARIABLES
    \* ---- scheduler (scheduler.c) ----
    threads,        \* the global thread list, head first (next = following element)
    tflags,         \* thread -> subset of {"ACTIVE", "SUSPENDED"}
    curthread,      \* PCPU curthread, 0 = NULL
    sched_state,    \* "ok", or how schedule() failed to return
    \* ---- dentry cache (dentry.cpp) ----
    dentries,       \* slot -> [d_fs, d_parent, d_entry, d_refcount, d_flags, d_inode]
    dcache_inuse,   \* the in-use list, head first
    dcache_free,    \* the free list, head first
    i_refcount,     \* inode -> the part of VFS_INODE.i_refcount the dentry cache took
    held,           \* slot -> references on the dentry owned by callers
    reclaimed,      \* the in-use slot the last call took over (line 92), else NULL
    ret,            \* the pointer the last dcache call returned, NONE if it returned none
    panic,          \* "" or the message of the KASSERT that stopped the kernel
    set_inode_de,   \* the dentry a dcache_set_inode call has written d_inode of
                    \* and not yet d_flags (between lines 234 and 235), else NULL
    \* ---- page-fault handler (vmfault.cpp) ----
    vs_areas,       \* vmspace -> its list of areas (va_pages kept in va_pages)
    va_pages,       \* <<vmspace, area index>> -> the area's page list
    vmpages,        \* every struct VM_PAGE allocated so far, by pointer
    i_pages,        \* inode -> the inode's list of shared vmpages
    frames,         \* every struct PAGE allocated so far -> the bytes of the frame
    pagemap,        \* vmspace -> page address -> [frame, flags] installed by md_map_pages
    file_len,       \* the length of the file behind the dentry
    nreads,         \* file offset -> number of read_data() calls made for it
    fpc,            \* faulting thread -> where it is in vmspace_handle_fault
    flocal,         \* faulting thread -> the handler's local variables
    fret,           \* faulting thread -> what its last vmspace_handle_fault returned
    nfaults,        \* number of vmspace_handle_fault calls made
    vm_panic,       \* "" or the message of the KASSERT that stopped the kernel
    \* ---- UHCI host controller driver (uhci-hcd.cpp) ----
    t_flags,        \* transfer -> subset of {"PENDING", "ERROR", "DATA"}
    t_type,         \* transfer -> its TRANSFER_TYPE_*
    t_length,       \* transfer -> the length of its data, in packets
    t_result_length,\* transfer -> the length OnIRQ stored, NONE if none was stored
    ud_transfers,   \* device -> its list of pending transfers, head first
    uhci_scheduled_items, \* the list of scheduled items, head first
    si_pool,        \* every HCD_ScheduledItem allocated so far -> [si_td, si_xfer]
    qh_first_td,    \* queue head -> the item whose chain its element pointer holds
    completions,    \* scheduled item -> number of Complete() calls made for it
    usb_ret,        \* what the last HCD call that returns a value returned
    usb_panic,      \* "" or the message of the KASSERT/panic that stopped the kernel
    ud_max_packet_sz0, \* the maximum packet size of the device the transfers go to
    qh_next_qh,     \* queue head -> the queue head its head pointer links to, or "T"
    attach_i,       \* Attach(): the number of frame-list entries written so far
    \* ---- interrupt dispatch (kern/irq.c) ----
    irq,            \* vector -> [dev, handler], NULL where nothing is registered
    irq_ret,        \* what the last irq_register() returned, NONE before the first
    irq_invoked,    \* the handler calls made so far, each <<handler, dev>>
    irq_panic,      \* "" or the reason the kernel stopped
    \* ---- USB mass storage (dev/usb/device/usb-storage.cpp) ----
    us_mutex,           \* the caller holding us_mutex, NULL when it is free
    us_output_buffer,   \* the caller whose result buffer it points to, or NULL
    us_output_filled,
    us_output_len,
    us_result_ptr,      \* the caller whose err it points to, or NULL
    us_csw_ptr,         \* the caller whose csw it points to, or NULL
    us_signal_sem,      \* the count of the semaphore
    p_pending,          \* pipe -> its transfer is with the host controller
    sc,                 \* caller -> its PerformSCSIRequest call: position and locals
    in_count,           \* bulk-in completions delivered so far
    stor_panic          \* "" or the reason the kernel stopped

schedVars  == <<threads, tflags, curthread, sched_state>>
dcacheVars == <<dentries, dcache_inuse, dcache_free, i_refcount, held, reclaimed, ret, panic,
                set_inode_de>>
vmVars     == <<vs_areas, va_pages, vmpages, i_pages, frames, pagemap, file_len, nreads,
                fpc, flocal, fret, nfaults, vm_panic>>
usbVars    == <<t_flags, t_type, t_length, t_result_length, ud_transfers,
                uhci_scheduled_items, si_pool, qh_first_td, completions,
                usb_ret, usb_panic, ud_max_packet_sz0, qh_next_qh, attach_i>>
\* what the HCD calls leave alone: the transfers' description and the schedule
\* Attach() built
usbFixed   == <<t_type, t_length, ud_max_packet_sz0, qh_next_qh, attach_i>>
irqVars    == <<irq, irq_ret, irq_invoked, irq_panic>>
storVars   == <<us_mutex, us_output_buffer, us_output_filled, us_output_len,
                us_result_ptr, us_csw_ptr, us_signal_sem, p_pending, sc, in_count,
                stor_panic>>
vars       == <<schedVars, dcacheVars, vmVars, usbVars, irqVars, storVars>>

NULL == 0
NONE == -1      \* no value: the call returns void

\* ------------------------------------------------------------------------
\* Generic sequence helpers
\* ------------------------------------------------------------------------
Range(s) == {s[i] : i \in DOMAIN s}

IndexOf(s, x) == CHOOSE i \in DOMAIN s : s[i] = x

NoDup(s) == \A i, j \in DOMAIN s : s[i] = s[j] => i = j

\* s without every occurrence of x, order kept
SeqRemove(s, x) == SelectSeq(s, LAMBDA y : y # x)

\* every sequence without repetition over the set S
RECURSIVE Perms(_)
Perms(S) ==
    IF S = {} THEN {<<>>}
    ELSE UNION {{<<x>> \o p : p \in Perms(S \ {x})} : x \in S}

\* ------------------------------------------------------------------------
\* Scheduler
\* ------------------------------------------------------------------------
MaxThreads == 3

Threads    == 1..MaxThreads
IdleThread == MaxThreads + 1       \* PCPU idlethread_ptr
AllThreads == Threads \cup {IdleThread}

THREAD_FLAG_ACTIVE    == "ACTIVE"
THREAD_FLAG_SUSPENDED == "SUSPENDED"

\* thread->next: the following list element, NULL after the last one and for
\* a thread that is not linked in the list
ThreadNext(t) ==
    IF t \in Range(threads) /\ IndexOf(threads, t) < Len(threads)
    THEN threads[IndexOf(threads, t) + 1]
    ELSE NULL

ThreadsHead == IF threads = <<>> THEN NULL ELSE threads[1]

ClearActive_Keep(f, cur) == f

\* lines 23-30: the flags after the current thread's ACTIVE flag is removed
ClearActive(f, cur) ==
    IF cur # NULL THEN [f EXCEPT ![cur] = @ \ {THREAD_FLAG_ACTIVE}] ELSE f

\* lines 28-34: where the scan starts
ScanStart(cur) ==
    IF cur # NULL /\ ThreadNext(cur) # NULL THEN ThreadNext(cur) ELSE ThreadsHead

\* lines 36-45: the scan. Yields the value of newthread when the loop is left,
\* or hang when the loop has gone round the list without leaving it.
RECURSIVE ScanLoop(_, _, _, _)
ScanLoop(f, n, cur, fuel) ==
    IF f[n] \cap {THREAD_FLAG_ACTIVE, THREAD_FLAG_SUSPENDED} = {}
    THEN [hang |-> FALSE, t |-> n]
    ELSE IF fuel = 0 THEN [hang |-> TRUE, t |-> n]
    ELSE LET n1 == ThreadNext(n)
             n2 == IF n1 = NULL THEN ThreadsHead ELSE n1
         IN  IF n1 = cur THEN [hang |-> FALSE, t |-> n1]
             ELSE IF n2 = cur THEN [hang |-> FALSE, t |-> n2]
             ELSE ScanLoop(f, n2, cur, fuel - 1)

SchedPick_Caller(newthread, cur) == newthread

\* lines 52-64: the thread that becomes current
SchedPick(newthread, cur) ==
    IF newthread # cur THEN newthread ELSE IdleThread

\* schedule(), lines 14-73
Schedule ==
    /\ sched_state = "ok"
    /\ LET f1    == ClearActive(tflags, curthread)
           start == ScanStart(curthread)
       IN  IF start = NULL
           THEN \* line 37 reads newthread->flags through a NULL pointer
                /\ sched_state' \in {"panic", "wild"}
                /\ tflags' = f1
                /\ UNCHANGED <<threads, curthread>>
           ELSE LET r == ScanLoop(f1, start, curthread, Len(threads) + 1)
                IN  IF r.hang
                    THEN /\ sched_state' = "hang"
                         /\ tflags' = f1
                         /\ UNCHANGED <<threads, curthread>>
                    ELSE LET new == SchedPick(r.t, curthread)
                         IN  /\ IF r.t # curthread
                                THEN IF THREAD_FLAG_SUSPENDED \in f1[r.t]
                                     THEN /\ sched_state' = "panic"   \* KASSERT line 61
                                          /\ tflags' = [f1 EXCEPT ![r.t] = @ \cup {THREAD_FLAG_ACTIVE}]
                                     ELSE /\ sched_state' = "ok"
                                          /\ tflags' = [f1 EXCEPT ![r.t] = @ \cup {THREAD_FLAG_ACTIVE}]
                                ELSE /\ sched_state' = "ok"
                                     /\ tflags' = f1
                             /\ curthread' = IF sched_state' = "ok" THEN new ELSE curthread
                             /\ UNCHANGED threads
    /\ UNCHANGED <<dcacheVars, vmVars, usbVars, irqVars, storVars>>

\* A thread is suspended (by itself, before it calls schedule()).
ThreadSuspend(t) ==
    /\ sched_state = "ok"
    /\ t \in Range(threads) /\ t # IdleThread
    /\ THREAD_FLAG_SUSPENDED \notin tflags[t]
    /\ tflags' = [tflags EXCEPT ![t] = @ \cup {THREAD_FLAG_SUSPENDED}]
    /\ UNCHANGED <<threads, curthread, sched_state>>
    /\ UNCHANGED <<dcacheVars, vmVars, usbVars, irqVars, storVars>>

\* A thread is woken from another context.
ThreadResume(t) ==
    /\ sched_state = "ok"
    /\ t \in Range(threads) /\ t # IdleThread
    /\ THREAD_FLAG_SUSPENDED \in tflags[t]
    /\ tflags' = [tflags EXCEPT ![t] = @ \ {THREAD_FLAG_SUSPENDED}]
    /\ UNCHANGED <<threads, curthread, sched_state>>
    /\ UNCHANGED <<dcacheVars, vmVars, usbVars, irqVars, storVars>>

\* The scheduler states the machine can be in when schedule() is called: no
\* thread at all, or any list of distinct threads with the idle thread among
\* them (lines 57-59: it is seen in the list); any thread of the list or none
\* as current thread; only the current thread is ACTIVE, the idle thread is
\* SUSPENDED.
SchedBoot ==
    /\ threads = <<>>
    /\ tflags = [t \in AllThreads |-> IF t = IdleThread THEN {THREAD_FLAG_SUSPENDED} ELSE {}]
    /\ curthread = NULL
    /\ sched_state = "ok"

SchedInit ==
    /\ threads \in {<<>>} \cup UNION {Perms(S \cup {IdleThread}) : S \in SUBSET Threads}
    /\ curthread \in {NULL} \cup Range(threads)
    /\ tflags = [t \in AllThreads |->
                    IF t = IdleThread THEN {THREAD_FLAG_SUSPENDED}
                    ELSE IF t = curthread THEN {THREAD_FLAG_ACTIVE} ELSE {}]
    /\ sched_state = "ok"

\* ------------------------------------------------------------------------
\* Interrupt dispatch
\* ------------------------------------------------------------------------
MAX_IRQS   == 2     \* vectors 0..MAX_IRQS-1
MaxInvoked == 2     \* interrupts delivered at most

IrqVectors  == 0..(MAX_IRQS - 1)
IrqHandlers == {"handler_a", "handler_b"}
IrqDevices  == {1, 2}

\* irq_init(), lines 7-11
IrqInit ==
    /\ irq = [no \in IrqVectors |-> [dev |-> NULL, handler |-> "NULL"]]
    /\ irq_ret = NONE
    /\ irq_invoked = <<>>
    /\ irq_panic = ""

HandlerSet_Never(no) == FALSE

\* line 18 and line 32: a handler is registered for the vector
HandlerSet(no) == irq[no].handler # "NULL"

\* irq_register(), lines 13-24
irq_register(no, dev, handler) ==
    /\ irq_panic = ""
    /\ IF ~(no < MAX_IRQS)
       THEN /\ irq_panic' = "interrupt out of range"       \* KASSERT line 16
            /\ UNCHANGED <<irq, irq_ret, irq_invoked>>
       ELSE IF HandlerSet(no)
       THEN /\ irq_ret' = 0
            /\ UNCHANGED <<irq, irq_invoked, irq_panic>>
       ELSE /\ irq' = [irq EXCEPT ![no] = [dev |-> dev, handler |-> handler]]
            /\ irq_ret' = 1
            /\ UNCHANGED <<irq_invoked, irq_panic>>
    /\ UNCHANGED <<schedVars, dcacheVars, vmVars, usbVars, storVars>>

\* irq_handler(), lines 26-38
irq_handler(no) ==
    /\ irq_panic = ""
    /\ Len(irq_invoked) < MaxInvoked
    /\ IF no >= MAX_IRQS
       THEN /\ irq_panic' = "irq_handler: impossible irq fired"   \* line 30
            /\ UNCHANGED irq_invoked
       ELSE IF ~HandlerSet(no)
       THEN UNCHANGED <<irq_invoked, irq_panic>>                   \* lines 32-35
       ELSE /\ irq_invoked' = Append(irq_invoked, <<irq[no].handler, irq[no].dev>>)
            /\ UNCHANGED irq_panic
    /\ UNCHANGED <<irq, irq_ret>>
    /\ UNCHANGED <<schedVars, dcacheVars, vmVars, usbVars, storVars>>

\* ------------------------------------------------------------------------
\* USB mass storage
\* ------------------------------------------------------------------------
MaxResult == 2      \* bytes a caller asks for at most
MaxIn     == 3      \* bulk-in completions delivered at most

Callers == {1, 2}

SizeofCSW == 13     \* sizeof(struct USBSTORAGE_CSW)

USBSTORAGE_CSW_SIGNATURE   == "USBS"
USBSTORAGE_CSW_STATUS_GOOD == 0
USBSTORAGE_CSW_STATUS_FAIL == 1

\* the tag PerformSCSIRequest sends: memset leaves d_cbw_tag 0 (line 176)
CbwTag == 0

\* what the device may answer as status wrapper: all well, or one field off
GoodCSW ==
    [d_csw_signature |-> USBSTORAGE_CSW_SIGNATURE, d_csw_tag |-> CbwTag,
     d_csw_status |-> USBSTORAGE_CSW_STATUS_GOOD]

CswShapes ==
    {GoodCSW,
     [GoodCSW EXCEPT !.d_csw_signature = "garbage"],
     [GoodCSW EXCEPT !.d_csw_tag = CbwTag + 1],
     [GoodCSW EXCEPT !.d_csw_status = USBSTORAGE_CSW_STATUS_FAIL]}

Uninitialized == [d_csw_signature |-> "?", d_csw_tag |-> -1, d_csw_status |-> -1]

\* the lengths a bulk-in transfer may complete with
InLengths == 0..(MaxResult + 1) \cup {SizeofCSW}

\* the arguments of a call: result (is it a buffer) and *result_len (NONE for
\* result_len == nullptr); the KASSERT of line 168 holds for them
CallArgs ==
    {[result |-> FALSE, result_len |-> NONE]}
    \cup {[result |-> TRUE, result_len |-> n] : n \in {NONE} \cup 0..MaxResult}

\* a caller outside PerformSCSIRequest
NoCall ==
    [pc |-> "idle", result |-> FALSE, result_len |-> NONE, buf |-> <<>>,
     err |-> "UNKNOWN", csw |-> Uninitialized, ret |-> "none"]

\* USBStorage::Attach(): mutex_init, sem_init(0), the pipes allocated
StorInit ==
    /\ us_mutex = NULL
    /\ us_output_buffer = NULL
    /\ us_output_filled = 0
    /\ us_output_len = 0
    /\ us_result_ptr = NULL
    /\ us_csw_ptr = NULL
    /\ us_signal_sem = 0
    /\ p_pending = [p \in {"us_BulkIn", "us_BulkOut"} |-> FALSE]
    /\ sc = [c \in Callers |-> NoCall]
    /\ in_count = 0
    /\ stor_panic = ""

\* Pipe::Start(): hands the pipe's transfer to the host controller, which
\* asserts that it is not pending already
PipeStart(pending, p) ==
    IF pending[p] THEN [pending |-> pending, panic |-> "scheduling transfer that is already pending"]
    ELSE [pending |-> [pending EXCEPT ![p] = TRUE], panic |-> ""]

\* PerformSCSIRequest, lines 165-202: the locals set up, the mutex taken
ScsiLock(c, args) ==
    /\ stor_panic = ""
    /\ sc[c].pc = "idle"
    /\ us_mutex = NULL
    /\ us_mutex' = c
    /\ sc' = [sc EXCEPT ![c] =
                 [pc |-> "locked", result |-> args.result, result_len |-> args.result_len,
                  buf |-> [i \in 1..(IF args.result_len = NONE THEN 0 ELSE args.result_len) |-> 0],
                  err |-> "UNKNOWN", csw |-> Uninitialized, ret |-> "none"]]
    /\ UNCHANGED <<us_output_buffer, us_output_filled, us_output_len, us_result_ptr,
                   us_csw_ptr, us_signal_sem, p_pending, in_count, stor_panic>>
    /\ UNCHANGED <<schedVars, dcacheVars, vmVars, usbVars, irqVars>>

\* PerformSCSIRequest, lines 203-214: the shared state set, the CBW posted,
\* the mutex released
ScsiSubmit(c) ==
    /\ stor_panic = ""
    /\ sc[c].pc = "locked"
    /\ us_output_buffer' = IF sc[c].result THEN c ELSE NULL
    /\ us_output_filled' = 0
    /\ us_output_len' = IF sc[c].result_len # NONE THEN sc[c].result_len ELSE 0
    /\ us_result_ptr' = c
    /\ us_csw_ptr' = c
    /\ LET st == PipeStart(p_pending, "us_BulkOut")
       IN  /\ p_pending' = st.pending
           /\ stor_panic' = st.panic
    /\ us_mutex' = NULL
    /\ sc' = [sc EXCEPT ![c].pc = "wait"]
    /\ UNCHANGED <<us_signal_sem, in_count>>
    /\ UNCHANGED <<schedVars, dcacheVars, vmVars, usbVars, irqVars>>

ScsiResult_NoTag(err, csw) ==
    IF err # "SUCCESS" THEN err
    ELSE IF csw.d_csw_signature # USBSTORAGE_CSW_SIGNATURE THEN "IO"
    ELSE IF csw.d_csw_status # USBSTORAGE_CSW_STATUS_GOOD THEN "IO"
    ELSE "SUCCESS"

\* lines 218-230: what the call returns once it is woken
ScsiResult(err, csw) ==
    IF err # "SUCCESS" THEN err
    ELSE IF csw.d_csw_signature # USBSTORAGE_CSW_SIGNATURE THEN "IO"
    ELSE IF csw.d_csw_tag # CbwTag THEN "IO"
    ELSE IF csw.d_csw_status # USBSTORAGE_CSW_STATUS_GOOD THEN "IO"
    ELSE "SUCCESS"

\* PerformSCSIRequest, lines 216-230: sem_wait_and_drain returns, the CSW is
\* looked at
ScsiWake(c) ==
    /\ stor_panic = ""
    /\ sc[c].pc = "wait"
    /\ us_signal_sem > 0
    /\ us_signal_sem' = 0
    /\ sc' = [sc EXCEPT ![c].pc = "done", ![c].ret = ScsiResult(sc[c].err, sc[c].csw)]
    /\ UNCHANGED <<us_mutex, us_output_buffer, us_output_filled, us_output_len,
                   us_result_ptr, us_csw_ptr, p_pending, in_count, stor_panic>>
    /\ UNCHANGED <<schedVars, dcacheVars, vmVars, usbVars, irqVars>>

\* the bulk-out transfer completes: OnPipeOutCallback, lines 281-290
OnPipeOutCallback ==
    /\ stor_panic = ""
    /\ p_pending["us_BulkOut"]
    /\ LET st == PipeStart([p_pending EXCEPT !["us_BulkOut"] = FALSE], "us_BulkIn")
       IN  /\ p_pending' = st.pending
           /\ stor_panic' = st.panic
    /\ UNCHANGED <<us_mutex, us_output_buffer, us_output_filled, us_output_len,
                   us_result_ptr, us_csw_ptr, us_signal_sem, sc, in_count>>
    /\ UNCHANGED <<schedVars, dcacheVars, vmVars, usbVars, irqVars>>

\* the bytes of the k-th bulk-in transfer
InData(k, len) == [i \in 1..len |-> 10 * k + i]

\* memcpy(buf + off, data, len)
CopyAt(buf, off, data, len) ==
    [i \in DOMAIN buf |-> IF i > off /\ i <= off + len THEN data[i - off] ELSE buf[i]]

\* the bulk-in transfer completes with t_result_length = len: OnPipeInCallback,
\* lines 233-279; csw is what the 13 bytes read as
OnPipeInCallback(len, csw) ==
    /\ stor_panic = ""
    /\ p_pending["us_BulkIn"]
    /\ us_mutex = NULL
    /\ in_count < MaxIn
    /\ in_count' = in_count + 1
    /\ IF us_output_buffer # NULL
       THEN LET left == us_output_len - us_output_filled
                n    == IF len > left THEN left ELSE len
                st   == PipeStart([p_pending EXCEPT !["us_BulkIn"] = FALSE], "us_BulkIn")
            IN  /\ sc' = [sc EXCEPT ![us_output_buffer].buf =
                              CopyAt(@, us_output_filled, InData(in_count + 1, len), n)]
                /\ us_output_filled' = us_output_filled + n
                /\ us_output_len' = IF left - n = 0 THEN n ELSE us_output_len
                /\ us_output_buffer' = IF left - n = 0 THEN NULL ELSE us_output_buffer
                /\ p_pending' = st.pending
                /\ stor_panic' = st.panic
                /\ UNCHANGED <<us_result_ptr, us_csw_ptr, us_signal_sem>>
       ELSE IF us_csw_ptr # NULL /\ us_result_ptr # NULL
       THEN /\ sc' = IF len # SizeofCSW
                     THEN [sc EXCEPT ![us_result_ptr].err = "BAD_LENGTH"]
                     ELSE [sc EXCEPT ![us_csw_ptr].csw = csw, ![us_result_ptr].err = "SUCCESS"]
            /\ us_result_ptr' = NULL
            /\ us_csw_ptr' = NULL
            /\ us_signal_sem' = us_signal_sem + 1
            /\ p_pending' = [p_pending EXCEPT !["us_BulkIn"] = FALSE]
            /\ UNCHANGED <<us_output_buffer, us_output_filled, us_output_len, stor_panic>>
       ELSE /\ p_pending' = [p_pending EXCEPT !["us_BulkIn"] = FALSE]
            /\ UNCHANGED <<us_output_buffer, us_output_filled, us_output_len,
                           us_result_ptr, us_csw_ptr, us_signal_sem, sc, stor_panic>>
    /\ UNCHANGED us_mutex
    /\ UNCHANGED <<schedVars, dcacheVars, vmVars, usbVars, irqVars>>

\* ------------------------------------------------------------------------
\* Dentry cache
\* ------------------------------------------------------------------------
DCACHE_ITEMS_PER_FS == 3    \* slots in the pool
MaxHeld  == 3               \* dentry references the callers hold at most, in all

Slots       == 1..DCACHE_ITEMS_PER_FS
Names       == {"a"}
Inodes      == {1, 2}
Filesystems == {1}

DENTRY_FLAG_ROOT     == "ROOT"
DENTRY_FLAG_NEGATIVE == "NEGATIVE"

RECURSIVE SumOver(_, _)
SumOver(f, S) ==
    IF S = {} THEN 0
    ELSE LET x == CHOOSE y \in S : TRUE IN f[x] + SumOver(f, S \ {x})

\* a slot after memset(d, 0, sizeof *d)
ZeroDentry ==
    [d_fs |-> NULL, d_parent |-> NULL, d_entry |-> "", d_refcount |-> 0,
     d_flags |-> {}, d_inode |-> NULL]

\* icache reference counting (vfs_ref_inode / vfs_deref_inode). i_refcount
\* counts the references taken through the dentry cache; what other owners
\* hold comes on top of it in the kernel and is never touched by this file.
vfs_ref_inode(irc, i)   == [irc EXCEPT ![i] = @ + 1]
vfs_deref_inode(irc, i) == [irc EXCEPT ![i] = @ - 1]

\* dcache_init(): every slot zeroed and appended to the free list
DcacheInit ==
    /\ dentries = [s \in Slots |-> ZeroDentry]
    /\ dcache_inuse = <<>>
    /\ dcache_free = [k \in 1..DCACHE_ITEMS_PER_FS |-> k]
    /\ i_refcount = [i \in Inodes |-> 0]
    /\ held = [s \in Slots |-> 0]
    /\ reclaimed = NULL
    /\ ret = NONE
    /\ panic = ""
    /\ set_inode_de = NULL

\* line 83 without the test of the Root flag
Reclaimable_AnyFlags(de) == de.d_refcount = 0

\* line 83: may this in-use entry be overwritten
Reclaimable(de) == de.d_refcount = 0 /\ DENTRY_FLAG_ROOT \notin de.d_flags

\* line 82 walking from the head instead
VictimIndex_FromHead(cands) == CHOOSE k \in cands : \A j \in cands : k <= j

\* line 82: LIST_FOREACH_REVERSE_SAFE stops at the first match from the tail
VictimIndex(cands) == CHOOSE k \in cands : \A j \in cands : j <= k

\* dcache_find_entry_to_use(): the slot (NULL if none) and the cache after it
FindEntryToUse(dents, inuse, free, irc) ==
    IF free # <<>>
    THEN [d |-> Head(free), dents |-> dents, inuse |-> inuse, free |-> Tail(free), irc |-> irc]
    ELSE LET cands == {k \in DOMAIN inuse : Reclaimable(dents[inuse[k]])}
         IN  IF cands = {}
             THEN [d |-> NULL, dents |-> dents, inuse |-> inuse, free |-> free, irc |-> irc]
             ELSE LET d == inuse[VictimIndex(cands)]
                  IN  [d     |-> d,
                       dents |-> [dents EXCEPT ![d].d_inode = NULL],
                       inuse |-> SeqRemove(inuse, d),
                       free  |-> free,
                       irc   |-> IF dents[d].d_inode # NULL
                                 THEN vfs_deref_inode(irc, dents[d].d_inode) ELSE irc]

\* fs->fs_root_dentry: the root dentry the mounted filesystem fs owns
IsMountedRoot(s, fs) ==
    /\ DENTRY_FLAG_ROOT \in dentries[s].d_flags
    /\ dentries[s].d_fs = fs
    /\ held[s] > 0

\* dcache_create_root_dentry(fs), called once for a mounted filesystem
DcacheCreateRoot(fs) ==
    /\ panic = ""
    /\ ~\E s \in Slots : IsMountedRoot(s, fs)
    /\ LET r == FindEntryToUse(dentries, dcache_inuse, dcache_free, i_refcount)
       IN  IF r.d = NULL
           THEN /\ panic' = "out of dentries"
                /\ reclaimed' = NULL
                /\ ret' = NONE
                /\ UNCHANGED <<dentries, dcache_inuse, dcache_free, i_refcount, held>>
           ELSE /\ dentries' = [r.dents EXCEPT ![r.d] =
                                   [@ EXCEPT !.d_fs = fs, !.d_refcount = 1, !.d_inode = NULL,
                                             !.d_flags = {DENTRY_FLAG_ROOT}, !.d_entry = "/"]]
                /\ dcache_inuse' = <<r.d>> \o r.inuse
                /\ dcache_free' = r.free
                /\ i_refcount' = r.irc
                /\ held' = [held EXCEPT ![r.d] = @ + 1]
                /\ reclaimed' = IF dcache_free = <<>> THEN r.d ELSE NULL
                /\ ret' = r.d
                /\ UNCHANGED panic
    /\ SumOver(held', Slots) <= MaxHeld
    /\ UNCHANGED <<schedVars, vmVars, usbVars, irqVars, storVars, set_inode_de>>

\* line 145-147: the in-use entries for (parent, entry), in list order
Matches(parent, entry) ==
    {k \in DOMAIN dcache_inuse :
        /\ dentries[dcache_inuse[k]].d_parent = parent
        /\ dentries[dcache_inuse[k]].d_entry = entry}

FirstMatch(parent, entry) ==
    dcache_inuse[CHOOSE k \in Matches(parent, entry) : \A j \in Matches(parent, entry) : k <= j]

\* line 156 without the test of the Negative flag
Pending_InodeOnly(de) == de.d_inode = NULL

\* line 156: the lookup of this entry has not finished
Pending(de) == de.d_inode = NULL /\ DENTRY_FLAG_NEGATIVE \notin de.d_flags

\* lines 166-167 left out
MoveToFront_InPlace(inuse, d) == inuse

\* lines 166-167: LIST_REMOVE then LIST_PREPEND
MoveToFront(inuse, d) == <<d>> \o SeqRemove(inuse, d)

\* lines 163-170: a hit on a resolved entry
LookupHit(d) ==
    /\ dentries' = [dentries EXCEPT ![d].d_refcount = @ + 1]
    /\ dcache_inuse' = MoveToFront(dcache_inuse, d)
    /\ held' = [held EXCEPT ![d] = @ + 1]
    /\ reclaimed' = NULL
    /\ ret' = d
    /\ UNCHANGED <<dcache_free, i_refcount, panic>>

\* lines 185-192 without line 188
NewDentry_Unreferenced(dents, parent, entry) ==
    [ZeroDentry EXCEPT !.d_fs = dents[parent].d_fs,
                       !.d_parent = parent, !.d_entry = entry]

\* lines 185-192: the slot as initialised for (parent, entry)
NewDentry(dents, parent, entry) ==
    [ZeroDentry EXCEPT !.d_fs = dents[parent].d_fs, !.d_refcount = 1,
                       !.d_parent = parent, !.d_entry = entry]

\* line 183 left out
dentry_ref_Skipped(dents, d) == dents

\* dentry_ref(d), past its KASSERT: line 242
dentry_ref(dents, d) == [dents EXCEPT ![d].d_refcount = @ + 1]

\* lines 173-196: a miss
LookupMiss(parent, entry) ==
    LET r == FindEntryToUse(dentries, dcache_inuse, dcache_free, i_refcount)
    IN  IF r.d = NULL
        THEN /\ panic' = "dcache full"
             /\ reclaimed' = NULL
             /\ ret' = NONE
             /\ UNCHANGED <<dentries, dcache_inuse, dcache_free, i_refcount, held>>
        ELSE IF r.dents[parent].d_refcount <= 0
        THEN /\ panic' = "invalid refcount"     \* KASSERT of dentry_ref(parent)
             /\ dentries' = r.dents
             /\ dcache_inuse' = r.inuse
             /\ dcache_free' = r.free
             /\ i_refcount' = r.irc
             /\ reclaimed' = IF dcache_free = <<>> THEN r.d ELSE NULL
             /\ ret' = NONE
             /\ UNCHANGED held
        ELSE LET d1 == dentry_ref(r.dents, parent)
             IN  /\ dentries' = [d1 EXCEPT ![r.d] = NewDentry(d1, parent, entry)]
                 /\ dcache_inuse' = <<r.d>> \o r.inuse
                 /\ dcache_free' = r.free
                 /\ i_refcount' = r.irc
                 /\ held' = [held EXCEPT ![r.d] = @ + 1]
                 /\ reclaimed' = IF dcache_free = <<>> THEN r.d ELSE NULL
                 /\ ret' = r.d
                 /\ UNCHANGED panic

\* dcache_lookup(parent, entry); the caller owns a reference on parent
DcacheLookup(parent, entry) ==
    /\ panic = ""
    /\ held[parent] > 0
    /\ IF Matches(parent, entry) # {}
       THEN LET d == FirstMatch(parent, entry)
            IN  IF Pending(dentries[d])
                THEN /\ ret' = NULL
                     /\ reclaimed' = NULL
                     /\ UNCHANGED <<dentries, dcache_inuse, dcache_free, i_refcount, held, panic>>
                ELSE LookupHit(d)
       ELSE LookupMiss(parent, entry)
    /\ SumOver(held', Slots) <= MaxHeld
    /\ UNCHANGED <<schedVars, vmVars, usbVars, irqVars, storVars, set_inode_de>>

\* dcache_purge_old_entries(), lines 203-215: walks the in-use list from the
\* head; k is the position in the list as it was when the walk began
RECURSIVE PurgeWalk(_, _, _, _, _, _)
PurgeWalk(orig, k, dents, inuse, free, irc) ==
    IF k > Len(orig) THEN [dents |-> dents, inuse |-> inuse, free |-> free, irc |-> irc]
    ELSE LET d == orig[k]
         IN  IF ~Reclaimable(dents[d])
             THEN PurgeWalk(orig, k + 1, dents, inuse, free, irc)
             ELSE PurgeWalk(orig, k + 1,
                            [dents EXCEPT ![d].d_inode = NULL],
                            SeqRemove(inuse, d),
                            <<d>> \o free,
                            IF dents[d].d_inode # NULL
                            THEN vfs_deref_inode(irc, dents[d].d_inode) ELSE irc)

DcachePurgeOldEntries ==
    /\ panic = ""
    /\ LET r == PurgeWalk(dcache_inuse, 1, dentries, dcache_inuse, dcache_free, i_refcount)
       IN  /\ dentries' = r.dents
           /\ dcache_inuse' = r.inuse
           /\ dcache_free' = r.free
           /\ i_refcount' = r.irc
    /\ reclaimed' = NULL
    /\ ret' = NONE
    /\ UNCHANGED <<held, panic>>
    /\ UNCHANGED <<schedVars, vmVars, usbVars, irqVars, storVars, set_inode_de>>

\* lines 229-230 left out
DropOldInode_Leaked(irc, de) == irc

\* lines 229-230: the reference on the inode the dentry had is dropped
DropOldInode(irc, de) ==
    IF de.d_inode # NULL THEN vfs_deref_inode(irc, de.d_inode) ELSE irc

\* line 235 left out
ClearNegative_Kept(flags) == flags

\* line 235: de->d_flags &= ~DENTRY_FLAG_NEGATIVE
ClearNegative(flags) == flags \ {DENTRY_FLAG_NEGATIVE}

\* dcache_set_inode(de, inode); the caller owns a reference on de. Its own
\* reference on inode lasts for the call only and is not counted in i_refcount.
DcacheSetInode(de, inode) ==
    /\ panic = ""
    /\ held[de] > 0
    /\ i_refcount' = vfs_ref_inode(DropOldInode(i_refcount, dentries[de]), inode)
    /\ dentries' = [dentries EXCEPT ![de].d_inode = inode,
                                    ![de].d_flags = ClearNegative(@)]
    /\ reclaimed' = NULL
    /\ ret' = NONE
    /\ UNCHANGED <<dcache_inuse, dcache_free, held, panic>>
    /\ UNCHANGED <<schedVars, vmVars, usbVars, irqVars, storVars, set_inode_de>>

\* dcache_set_inode(de, inode) as other threads see it: it takes no lock, so
\* its stores become visible one after the other. Lines 226-234: the
\* reference counts and d_inode are written.
SetInodeStore(de, inode) ==
    /\ panic = ""
    /\ set_inode_de = NULL
    /\ held[de] > 0
    /\ i_refcount' = vfs_ref_inode(DropOldInode(i_refcount, dentries[de]), inode)
    /\ dentries' = [dentries EXCEPT ![de].d_inode = inode]
    /\ set_inode_de' = de
    /\ reclaimed' = NULL
    /\ ret' = NONE
    /\ UNCHANGED <<dcache_inuse, dcache_free, held, panic>>
    /\ UNCHANGED <<schedVars, vmVars, usbVars, irqVars, storVars>>

\* line 235: the Negative flag is cleared and the call returns
SetInodeClearFlag ==
    /\ panic = ""
    /\ set_inode_de # NULL
    /\ dentries' = [dentries EXCEPT ![set_inode_de].d_flags = ClearNegative(@)]
    /\ set_inode_de' = NULL
    /\ reclaimed' = NULL
    /\ ret' = NONE
    /\ UNCHANGED <<dcache_inuse, dcache_free, i_refcount, held, panic>>
    /\ UNCHANGED <<schedVars, vmVars, usbVars, irqVars, storVars>>

\* lines 258-261 left out
ReleasesParent_Never(de) == FALSE

\* lines 258-261: what happens to the reference on the parent at refcount 0
ReleasesParent(de) == de.d_parent # NULL

\* dentry_deref_locked(d): the dentries after it, and whether a KASSERT fired
RECURSIVE DerefLocked(_, _)
DerefLocked(dents, d) ==
    IF dents[d].d_refcount <= 0 THEN [dents |-> dents, failed |-> TRUE]
    ELSE LET d1 == [dents EXCEPT ![d].d_refcount = @ - 1]
         IN  IF d1[d].d_refcount > 0 THEN [dents |-> d1, failed |-> FALSE]
             ELSE IF ReleasesParent(d1[d])
             THEN LET r == DerefLocked(d1, d1[d].d_parent)
                  IN  [dents |-> [r.dents EXCEPT ![d].d_parent = NULL], failed |-> r.failed]
             ELSE [dents |-> d1, failed |-> FALSE]

\* dentry_deref(de); the caller gives up a reference it owns
DentryDeref(de) ==
    /\ panic = ""
    /\ held[de] > 0
    /\ LET r == DerefLocked(dentries, de)
       IN  /\ dentries' = r.dents
           /\ panic' = IF r.failed THEN "invalid refcount" ELSE panic
    /\ held' = [held EXCEPT ![de] = @ - 1]
    /\ reclaimed' = NULL
    /\ ret' = NONE
    /\ UNCHANGED <<dcache_inuse, dcache_free, i_refcount>>
    /\ UNCHANGED <<schedVars, vmVars, usbVars, irqVars, storVars, set_inode_de>>

\* dentry_unlink(de); the caller owns a reference on de
DentryUnlink(de) ==
    /\ panic = ""
    /\ held[de] > 0
    /\ i_refcount' = DropOldInode(i_refcount, dentries[de])
    /\ dentries' = [dentries EXCEPT ![de].d_flags = @ \cup {DENTRY_FLAG_NEGATIVE},
                                    ![de].d_inode = NULL]
    /\ reclaimed' = NULL
    /\ ret' = NONE
    /\ UNCHANGED <<dcache_inuse, dcache_free, held, panic>>
    /\ UNCHANGED <<schedVars, vmVars, usbVars, irqVars, storVars, set_inode_de>>

\* ------------------------------------------------------------------------
\* Page-fault handler
\* ------------------------------------------------------------------------
PAGE_SIZE == 2          \* bytes in a page, scaled down
MaxFaults == 2          \* vmspace_handle_fault calls made at most

Vmspaces == {1, 2}      \* one faulting thread in each
MaxAddr  == 4 * PAGE_SIZE - 1
Addrs    == 0..MaxAddr
\* the addresses used: below the area, inside its first page, its second
\* page, the first address past it
FaultAddrs == {0, PAGE_SIZE + 1, 2 * PAGE_SIZE, 3 * PAGE_SIZE}
FileInode  == 1         \* va_dentry->d_inode of the one backing file
FileDentry == 1

VM_FLAG_READ    == "READ"
VM_FLAG_WRITE   == "WRITE"
VM_FLAG_PRIVATE == "PRIVATE"
VM_FLAG_LAZY    == "LAZY"
VM_FLAG_ALLOC   == "ALLOC"
VM_PAGE_FLAG_PENDING  == "PENDING"
VM_PAGE_FLAG_PRIVATE  == "PAGE_PRIVATE"
VM_PAGE_FLAG_READONLY == "READONLY"

\* the bytes of the file, byte k of the file being k + 1
FileByte(k) == k + 1

\* what page_alloc_single leaves in a frame is not defined
GarbageBytes == {0, 7}

\* line 72: virt & ~(PAGE_SIZE - 1)
PageAlign(virt) == virt - (virt % PAGE_SIZE)

\* lines 57-59 with virt <= va->va_virt + va->va_len
FindArea_InclusiveEnd(vs, virt) ==
    LET hits == {k \in DOMAIN vs_areas[vs] :
                    /\ virt >= vs_areas[vs][k].va_virt
                    /\ virt <= vs_areas[vs][k].va_virt + vs_areas[vs][k].va_len}
    IN  IF hits = {} THEN NULL ELSE CHOOSE k \in hits : \A j \in hits : k <= j

\* lines 57-59 without the test virt >= va->va_virt
FindArea_NoLowerBound(vs, virt) ==
    LET hits == {k \in DOMAIN vs_areas[vs] :
                    virt < vs_areas[vs][k].va_virt + vs_areas[vs][k].va_len}
    IN  IF hits = {} THEN NULL ELSE CHOOSE k \in hits : \A j \in hits : k <= j

\* lines 57-59: the first area of the list that holds virt, NULL if none
FindArea(vs, virt) ==
    LET hits == {k \in DOMAIN vs_areas[vs] :
                    /\ virt >= vs_areas[vs][k].va_virt
                    /\ virt < vs_areas[vs][k].va_virt + vs_areas[vs][k].va_len}
    IN  IF hits = {} THEN NULL ELSE CHOOSE k \in hits : \A j \in hits : k <= j

\* lines 39-47
vmspace_page_flags_from_va(va) ==
    IF va.va_flags \cap {VM_FLAG_READ, VM_FLAG_WRITE} = {VM_FLAG_READ}
    THEN {VM_PAGE_FLAG_READONLY} ELSE {}

\* lines 71-74: is the page to be read from the file
FileBacked(va, virt) ==
    /\ va.va_dentry # NULL
    /\ PageAlign(virt) - va.va_virt < va.va_dlength

\* lines 73, 77
ReadOff(va, virt) == PageAlign(virt) - va.va_virt + va.va_doffset

\* line 103
IsWholePage(va, read_off) == read_off + PAGE_SIZE <= va.va_doffset + va.va_dlength

\* vmpage_get_page: the frame behind a vmpage; a link has the frame of its source
vmpage_get_page(pages, vp) ==
    IF pages[vp].vp_link # NULL THEN pages[pages[vp].vp_link].vp_page ELSE pages[vp].vp_page

\* a struct VM_PAGE as vmpage_alloc leaves it
NewVmpage(flags, inode, offset, frame, link, owner) ==
    [vp_flags |-> flags, vp_inode |-> inode, vp_offset |-> offset, vp_page |-> frame,
     vp_link |-> link, vp_vaddr |-> 0, vp_lock |-> owner]

\* the handler's locals outside a call
NoLocals == [va |-> NULL, virt |-> 0, read_off |-> 0, vmpage |-> NULL, new_vp |-> NULL]

\* read_data(), lines 20-37: the bytes read, or SHORT_READ
read_data(offset, len) ==
    IF offset + len <= file_len
    THEN [err |-> "OK", buf |-> [k \in 1..len |-> FileByte(offset + k - 1)]]
    ELSE [err |-> "SHORT_READ", buf |-> <<>>]

\* md_map_pages(vs, virt, phys, 1, flags)
md_map_pages(pm, vs, vaddr, frame, flags) ==
    [pm EXCEPT ![vs][vaddr] = [frame |-> frame, flags |-> flags]]

Unmapped == [frame |-> NULL, flags |-> {}]

\* vmpage_create_private(flags): a new vmpage with a frame of its own
vmpage_create_private(pages, flags, frame) ==
    Append(pages, NewVmpage(flags, NULL, 0, frame, NULL, NULL))

\* vmpage_link(vmpage): a new vmpage that is an alias of the frame of vmpage
vmpage_link(pages, vp) ==
    Append(pages, NewVmpage({}, NULL, 0, NULL, vp, NULL))

\* vmpage_lookup_locked: the first vmpage of the inode's list at this offset
vmpage_lookup(inode, offset) ==
    LET hits == {k \in DOMAIN i_pages[inode] : vmpages[i_pages[inode][k]].vp_offset = offset}
    IN  IF hits = {} THEN NULL
        ELSE i_pages[inode][CHOOSE k \in hits : \A j \in hits : k <= j]

\* lines 52-74 and 127-131: entry, the walk over the areas, and in the anonymous
\* case the new private vmpage
FaultEnter(t, virt) ==
    /\ vm_panic = "" /\ fpc[t] = "idle" /\ nfaults < MaxFaults
    /\ nfaults' = nfaults + 1
    /\ LET k == FindArea(t, virt)
       IN  IF k = NULL
           THEN /\ fret' = [fret EXCEPT ![t] = "BAD_ADDRESS"]          \* line 142
                /\ UNCHANGED <<va_pages, vmpages, frames, fpc, flocal, vm_panic>>
           ELSE IF vs_areas[t][k].va_flags \cap {VM_FLAG_ALLOC, VM_FLAG_LAZY} = {}
           THEN /\ vm_panic' = "unexpected pagefault"                    \* line 62
                /\ fret' = [fret EXCEPT ![t] = ""]
                /\ UNCHANGED <<va_pages, vmpages, frames, fpc, flocal>>
           ELSE IF FileBacked(vs_areas[t][k], virt)
           THEN /\ fpc' = [fpc EXCEPT ![t] = "lookup"]
                /\ flocal' = [flocal EXCEPT ![t] =
                                 [NoLocals EXCEPT !.va = k, !.virt = virt,
                                                  !.read_off = ReadOff(vs_areas[t][k], virt)]]
                /\ fret' = [fret EXCEPT ![t] = ""]
                /\ UNCHANGED <<va_pages, vmpages, frames, vm_panic>>
           ELSE \E g \in GarbageBytes :
                /\ frames' = Append(frames, [b \in 1..PAGE_SIZE |-> g])
                /\ vmpages' = [vmpage_create_private(vmpages, {VM_PAGE_FLAG_PRIVATE}, Len(frames) + 1)
                                  EXCEPT ![Len(vmpages) + 1].vp_vaddr = PageAlign(virt)]
                /\ va_pages' = [va_pages EXCEPT ![<<t, k>>] = Append(@, Len(vmpages) + 1)]
                /\ fpc' = [fpc EXCEPT ![t] = "anon_map"]
                /\ flocal' = [flocal EXCEPT ![t] =
                                 [NoLocals EXCEPT !.va = k, !.virt = virt,
                                                  !.new_vp = Len(vmpages) + 1]]
                /\ fret' = [fret EXCEPT ![t] = ""]
                /\ UNCHANGED vm_panic
    /\ UNCHANGED <<vs_areas, i_pages, pagemap, file_len, nreads>>
    /\ UNCHANGED <<schedVars, dcacheVars, usbVars, irqVars, storVars>>

\* line 134: the new page is mapped read/write
FaultAnonMap(t) ==
    /\ vm_panic = "" /\ fpc[t] = "anon_map"
    /\ pagemap' = md_map_pages(pagemap, t, vmpages[flocal[t].new_vp].vp_vaddr,
                               vmpage_get_page(vmpages, flocal[t].new_vp),
                               {VM_FLAG_READ, VM_FLAG_WRITE})
    /\ fpc' = [fpc EXCEPT ![t] = "anon_zero"]
    /\ UNCHANGED <<vs_areas, va_pages, vmpages, i_pages, frames, file_len, nreads,
                   flocal, fret, nfaults, vm_panic>>
    /\ UNCHANGED <<schedVars, dcacheVars, usbVars, irqVars, storVars>>

\* line 135 left out
FaultAnonZero_Skipped(t) ==
    /\ vm_panic = "" /\ fpc[t] = "anon_zero"
    /\ fpc' = [fpc EXCEPT ![t] = "anon_remap"]
    /\ UNCHANGED <<vs_areas, va_pages, vmpages, i_pages, frames, pagemap, file_len, nreads,
                   flocal, fret, nfaults, vm_panic>>
    /\ UNCHANGED <<schedVars, dcacheVars, usbVars, irqVars, storVars>>

\* line 135: memset through the mapping of the page
FaultAnonZero(t) ==
    /\ vm_panic = "" /\ fpc[t] = "anon_zero"
    /\ LET m == pagemap[t][vmpages[flocal[t].new_vp].vp_vaddr]
       IN  frames' = [frames EXCEPT ![m.frame] = [b \in 1..PAGE_SIZE |-> 0]]
    /\ fpc' = [fpc EXCEPT ![t] = "anon_remap"]
    /\ UNCHANGED <<vs_areas, va_pages, vmpages, i_pages, pagemap, file_len, nreads,
                   flocal, fret, nfaults, vm_panic>>
    /\ UNCHANGED <<schedVars, dcacheVars, usbVars, irqVars, storVars>>

\* lines 137-139: the page is mapped with the flags of the area
FaultAnonRemap(t) ==
    /\ vm_panic = "" /\ fpc[t] = "anon_remap"
    /\ pagemap' = md_map_pages(pagemap, t, vmpages[flocal[t].new_vp].vp_vaddr,
                               vmpage_get_page(vmpages, flocal[t].new_vp),
                               vs_areas[t][flocal[t].va].va_flags)
    /\ fpc' = [fpc EXCEPT ![t] = "idle"]
    /\ flocal' = [flocal EXCEPT ![t] = NoLocals]
    /\ fret' = [fret EXCEPT ![t] = "OK"]
    /\ UNCHANGED <<vs_areas, va_pages, vmpages, i_pages, frames, file_len, nreads,
                   nfaults, vm_panic>>
    /\ UNCHANGED <<schedVars, dcacheVars, usbVars, irqVars, storVars>>

\* line 78: vmpage_lookup_locked, which returns the vmpage locked, or nullptr
FaultLookup(t) ==
    /\ vm_panic = "" /\ fpc[t] = "lookup"
    /\ LET vp == vmpage_lookup(FileInode, flocal[t].read_off)
       IN  IF vp = NULL
           THEN /\ fpc' = [fpc EXCEPT ![t] = "create"]
                /\ UNCHANGED <<vmpages, flocal>>
           ELSE /\ vmpages[vp].vp_lock = NULL        \* vmpage_lock waits for the owner
                /\ vmpages' = [vmpages EXCEPT ![vp].vp_lock = t]
                /\ flocal' = [flocal EXCEPT ![t].vmpage = vp]
                /\ fpc' = [fpc EXCEPT ![t] = "fill"]
    /\ UNCHANGED <<vs_areas, va_pages, i_pages, frames, pagemap, file_len, nreads,
                   fret, nfaults, vm_panic>>
    /\ UNCHANGED <<schedVars, dcacheVars, usbVars, irqVars, storVars>>

\* lines 79-82: vmpage_create_shared, which returns the new vmpage locked
FaultCreate(t) ==
    /\ vm_panic = "" /\ fpc[t] = "create"
    /\ vmpages' = Append(vmpages,
                     NewVmpage({VM_PAGE_FLAG_PENDING}
                                   \cup vmspace_page_flags_from_va(vs_areas[t][flocal[t].va]),
                               FileInode, flocal[t].read_off, NULL, NULL, t))
    /\ i_pages' = [i_pages EXCEPT ![FileInode] = Append(@, Len(vmpages) + 1)]
    /\ flocal' = [flocal EXCEPT ![t].vmpage = Len(vmpages) + 1]
    /\ fpc' = [fpc EXCEPT ![t] = "fill"]
    /\ UNCHANGED <<vs_areas, va_pages, frames, pagemap, file_len, nreads,
                   fret, nfaults, vm_panic>>
    /\ UNCHANGED <<schedVars, dcacheVars, usbVars, irqVars, storVars>>

\* line 93: what the handler does with the result of read_data
ReadFailed(err) == err # "OK"

\* lines 85-98: a pending vmpage gets a frame with the bytes of the file
FaultFill(t) ==
    /\ vm_panic = "" /\ fpc[t] = "fill"
    /\ LET vp == flocal[t].vmpage
           r  == read_data(flocal[t].read_off, PAGE_SIZE)
       IN  IF VM_PAGE_FLAG_PENDING \notin vmpages[vp].vp_flags
           THEN /\ fpc' = [fpc EXCEPT ![t] = "install"]
                /\ UNCHANGED <<vmpages, frames, nreads, vm_panic>>
           ELSE /\ nreads' = [nreads EXCEPT ![flocal[t].read_off] = @ + 1]
                /\ IF ReadFailed(r.err)
                   THEN /\ vm_panic' = "cannot deal with error"
                        /\ \E g \in GarbageBytes :
                              frames' = Append(frames, [b \in 1..PAGE_SIZE |-> g])
                        /\ UNCHANGED <<vmpages, fpc>>
                   ELSE /\ frames' = Append(frames, r.buf)
                        /\ vmpages' = [vmpages EXCEPT
                                          ![vp].vp_page = Len(frames) + 1,
                                          ![vp].vp_flags = @ \ {VM_PAGE_FLAG_PENDING}]
                        /\ fpc' = [fpc EXCEPT ![t] = "install"]
                        /\ UNCHANGED vm_panic
    /\ UNCHANGED <<vs_areas, va_pages, i_pages, pagemap, file_len, flocal, fret, nfaults>>
    /\ UNCHANGED <<schedVars, dcacheVars, usbVars, irqVars, storVars>>

\* line 105 without the test of VM_FLAG_PRIVATE
CanShare_AnyArea(va, read_off) == IsWholePage(va, read_off)

\* line 105: may the area map the frame of the shared vmpage itself
CanShare(va, read_off) == IsWholePage(va, read_off) /\ VM_FLAG_PRIVATE \notin va.va_flags

\* lines 100-123: link or copy, unlock, append to the area, map
FaultInstall(t) ==
    /\ vm_panic = "" /\ fpc[t] = "install"
    /\ LET va     == vs_areas[t][flocal[t].va]
           vp     == flocal[t].vmpage
           new_vp == Len(vmpages) + 1
           vaddr  == PageAlign(flocal[t].virt)
           linked == vmpage_link(vmpages, vp)
           copied == vmpage_create_private(vmpages,
                        {VM_PAGE_FLAG_PRIVATE} \cup vmspace_page_flags_from_va(va),
                        Len(frames) + 1)
           pages1 == IF CanShare(va, flocal[t].read_off) THEN linked ELSE copied
           pages2 == [pages1 EXCEPT ![vp].vp_lock = NULL, ![new_vp].vp_vaddr = vaddr]
       IN  /\ frames' = IF CanShare(va, flocal[t].read_off) THEN frames
                        ELSE Append(frames, frames[vmpages[vp].vp_page])   \* vmpage_copy
           /\ vmpages' = pages2
           /\ va_pages' = [va_pages EXCEPT ![<<t, flocal[t].va>>] = Append(@, new_vp)]
           /\ pagemap' = md_map_pages(pagemap, t, vaddr, vmpage_get_page(pages2, new_vp),
                                      va.va_flags)
    /\ fpc' = [fpc EXCEPT ![t] = "idle"]
    /\ flocal' = [flocal EXCEPT ![t] = NoLocals]
    /\ fret' = [fret EXCEPT ![t] = "OK"]
    /\ UNCHANGED <<vs_areas, i_pages, file_len, nreads, nfaults, vm_panic>>
    /\ UNCHANGED <<schedVars, dcacheVars, usbVars, irqVars, storVars>>

\* a store by the thread of vmspace vs to an address its page tables map writable
WrittenByte == 9

VmWrite(vs, addr) ==
    /\ vm_panic = "" /\ fpc[vs] = "idle"
    /\ pagemap[vs][PageAlign(addr)].frame # NULL
    /\ VM_FLAG_WRITE \in pagemap[vs][PageAlign(addr)].flags
    /\ frames' = [frames EXCEPT ![pagemap[vs][PageAlign(addr)].frame][(addr % PAGE_SIZE) + 1]
                                    = WrittenByte]
    /\ UNCHANGED <<vs_areas, va_pages, vmpages, i_pages, pagemap, file_len, nreads,
                   fpc, flocal, fret, nfaults, vm_panic>>
    /\ UNCHANGED <<schedVars, dcacheVars, usbVars, irqVars, storVars>>

\* the areas map_area() can have made: page-aligned, one per address space
AreaFlagSets ==
    {{VM_FLAG_READ, VM_FLAG_LAZY},
     {VM_FLAG_READ, VM_FLAG_WRITE, VM_FLAG_LAZY},
     {VM_FLAG_READ, VM_FLAG_WRITE, VM_FLAG_PRIVATE, VM_FLAG_LAZY},
     {VM_FLAG_READ, VM_FLAG_WRITE}}

AreaBackings ==
    {[va_dentry |-> NULL, va_doffset |-> 0, va_dlength |-> 0],
     [va_dentry |-> FileDentry, va_doffset |-> 0, va_dlength |-> 2 * PAGE_SIZE],
     [va_dentry |-> FileDentry, va_doffset |-> 0, va_dlength |-> PAGE_SIZE + 1],
     [va_dentry |-> FileDentry, va_doffset |-> PAGE_SIZE, va_dlength |-> PAGE_SIZE]}

Areas ==
    {[va_virt |-> PAGE_SIZE, va_len |-> 2 * PAGE_SIZE, va_flags |-> f,
      va_dentry |-> b.va_dentry, va_doffset |-> b.va_doffset, va_dlength |-> b.va_dlength] :
        f \in AreaFlagSets, b \in AreaBackings}

PageAddrs == {a \in Addrs : a % PAGE_SIZE = 0}

\* the state before the first fault, for given areas and file
VmStart ==
    /\ va_pages = [x \in Vmspaces \X {1} |-> <<>>]
    /\ vmpages = <<>>
    /\ i_pages = [i \in {FileInode} |-> <<>>]
    /\ frames = <<>>
    /\ pagemap = [v \in Vmspaces |-> [a \in PageAddrs |-> Unmapped]]
    /\ nreads = [o \in 0..(3 * PAGE_SIZE) |-> 0]
    /\ fpc = [t \in Vmspaces |-> "idle"]
    /\ flocal = [t \in Vmspaces |-> NoLocals]
    /\ fret = [t \in Vmspaces |-> ""]
    /\ nfaults = 0
    /\ vm_panic = ""

\* no address space has an area
VmBoot ==
    /\ vs_areas = [v \in Vmspaces |-> <<>>]
    /\ file_len = 0
    /\ VmStart

VmInit ==
    /\ vs_areas \in [Vmspaces -> {<<a>> : a \in Areas}]
    /\ file_len \in {PAGE_SIZE + 1, 3 * PAGE_SIZE}
    /\ VmStart

\* ------------------------------------------------------------------------
\* UHCI host controller driver (uhci-hcd.cpp)
\*
\* A transfer descriptor is a record; a chain of TDs is the sequence of its
\* TDs in link order, so si_td[1] is the TD the scheduled item points at and
\* LIST_NEXT is the following element.  A scheduled item is named by its
\* index in si_pool, items are never freed (line 312).  The callers hold the
\* lock of the transfer's device (AssertLocked, lines 346 and 453) and the
\* interrupt handler runs to its end once entered, so every call is one
\* step; the host controller works on the chains in between.
\* ------------------------------------------------------------------------
MaxItems == 2           \* scheduled items allocated at most
MaxRearmed == 1         \* items beyond MaxItems that completion callbacks may add

Transfers     == {1, 2, 3}
Devices       == {1, 2}
RootHubDevice == 1      \* the device with USB_DEVICE_FLAG_ROOT_HUB
t_device(xfer) == IF xfer = 1 THEN RootHubDevice ELSE 2
TD_LINKPTR_T  == "T"     \* the link pointer is a terminator
TD_LINKPTR_VF == "VF"    \* the link pointer is followed depth first

TRANSFER_FLAG_PENDING == "PENDING"
TRANSFER_FLAG_ERROR   == "ERROR"
TRANSFER_FLAG_READ    == "READ"
TRANSFER_FLAG_DATA    == "DATA"

TRANSFER_TYPE_CONTROL   == "CONTROL"
TRANSFER_TYPE_INTERRUPT == "INTERRUPT"
TRANSFER_TYPE_BULK      == "BULK"

UHCI_USBSTS_USBINT   == "USBINT"
UHCI_USBSTS_HCPE     == "HCPE"
UHCI_USBSTS_HSE      == "HSE"
UHCI_USBSTS_HCHALTED == "HCHALTED"
\* the values of USBSTS the handler is entered with
IrqStatuses ==
    {{}, {UHCI_USBSTS_USBINT}, {UHCI_USBSTS_USBINT, UHCI_USBSTS_HCHALTED},
     {UHCI_USBSTS_HCHALTED}, {UHCI_USBSTS_HSE, UHCI_USBSTS_HCPE}}

TD_STATUS_ACTIVE  == "ACTIVE"
TD_STATUS_IOC     == "IOC"
TD_STATUS_STALLED == "STALLED"
TD_STATUS_ERRORS  == {TD_STATUS_STALLED, "DATABUFERR", "BABBLE", "NAK", "CRCTOERR", "BITSTUFF"}
TD_ACTUALLEN_NONE == 2047

TD_PID_SETUP == "SETUP"
TD_PID_IN    == "IN"
TD_PID_OUT   == "OUT"

ControlRequestLen  == 8     \* sizeof(struct USB_CONTROL_REQUEST)
ControlRequestAddr == 64    \* KVTOP(&xfer.t_control_req)
DataAddr           == 128   \* KVTOP(&xfer.t_data[0])

QueueHeads == {"uhci_qh_ls_control", "uhci_qh_interrupt[0]"}

ANANAS_SUCCESS == "success"
VOID           == "void"

\* a TD as AllocateTD() and its caller leave it: the low-speed bit and the
\* error counter of td_status are left out, the actual length field is 0;
\* td_linkptr holds the bits of the link pointer, the TD it addresses is
\* the next of the chain
NewTD(linkptr, status, pid, toggle, maxlen, buffer) ==
    [td_linkptr |-> linkptr, td_status |-> status, td_pid |-> pid, td_data |-> toggle,
     td_maxlen |-> maxlen, td_buffer |-> buffer, td_actlen |-> 0]

\* TD_LINKPTR_VF | GetPhysicalAddress(link_td), lines 70-76
LinkTo_Terminated(link_td) == {TD_LINKPTR_VF, TD_LINKPTR_T}

LinkTo(link_td) ==
    IF link_td = <<>> THEN {TD_LINKPTR_VF, TD_LINKPTR_T} ELSE {TD_LINKPTR_VF}

\* the loop of CreateDataTDs from iteration i on; link is the chain built so far
RECURSIVE DataTDs(_, _, _, _, _, _, _, _)
DataTDs(i, num_datapkts, size, max_packet_size, token, link_td, data_token, cur_data_ptr) ==
    IF i = num_datapkts
    THEN [chain |-> link_td, cur_data_ptr |-> cur_data_ptr]
    ELSE LET xfer_chunk_len ==
                 IF size = max_packet_size THEN max_packet_size
                 ELSE IF i = 0 THEN size % max_packet_size ELSE max_packet_size
             td_data == NewTD(LinkTo(link_td), {TD_STATUS_ACTIVE}, token, data_token, xfer_chunk_len,
                              cur_data_ptr - xfer_chunk_len)
         IN  DataTDs(i + 1, num_datapkts, size, max_packet_size, token,
                     <<td_data>> \o link_td, 1 - data_token,
                     cur_data_ptr - xfer_chunk_len)

\* the chain for size bytes at data, linked in front of link_td; bug is the
\* closing KASSERT failing
CreateDataTDs(data, size, max_packet_size, token, link_td) ==
    LET num_datapkts == (size + max_packet_size - 1) \div max_packet_size
        r == DataTDs(0, num_datapkts, size, max_packet_size, token, link_td,
                     num_datapkts % 2, data + size)
    IN  [chain |-> r.chain, num_datapkts |-> num_datapkts,
         bug |-> r.cur_data_ptr # data]

RECURSIVE ChainLength(_, _)
ChainLength(chain, k) ==
    IF k > Len(chain) THEN 0
    ELSE (IF chain[k].td_actlen # TD_ACTUALLEN_NONE THEN chain[k].td_actlen ELSE 0)
         + ChainLength(chain, k + 1)

\* total number of bytes transferred, and whether no TD reports an error
VerifyChainAndCalculateLength(chain) ==
    [length |-> ChainLength(chain, 1),
     ok |-> \A k \in DOMAIN chain : chain[k].td_status \cap TD_STATUS_ERRORS = {}]

\* the HCD state the calls below work on
Hcd ==
    [t_flags |-> t_flags, t_result_length |-> t_result_length,
     ud_transfers |-> ud_transfers, uhci_scheduled_items |-> uhci_scheduled_items,
     si_pool |-> si_pool, qh_first_td |-> qh_first_td, completions |-> completions,
     usb_ret |-> usb_ret, usb_panic |-> usb_panic]

SetHcd(h) ==
    /\ t_flags' = h.t_flags
    /\ t_result_length' = h.t_result_length
    /\ ud_transfers' = h.ud_transfers
    /\ uhci_scheduled_items' = h.uhci_scheduled_items
    /\ si_pool' = h.si_pool
    /\ qh_first_td' = h.qh_first_td
    /\ completions' = h.completions
    /\ usb_ret' = h.usb_ret
    /\ usb_panic' = h.usb_panic

\* lines 405-414 and 435-444: a new scheduled item for the chain, appended to
\* the list, and the chain written over the queue head's element pointer
ScheduleItem(h, xfer, td, qh) ==
    LET si == Len(h.si_pool) + 1
    IN  [h EXCEPT !.si_pool = Append(@, [si_td |-> td, si_xfer |-> xfer]),
                  !.completions = Append(@, 0),
                  !.uhci_scheduled_items = Append(@, si),
                  !.qh_first_td[qh] = si,
                  !.usb_ret = ANANAS_SUCCESS]

ScheduleControlTransfer(h, xfer) ==
    LET isread == TRANSFER_FLAG_READ \in h.t_flags[xfer]
        td_handshake == NewTD({TD_LINKPTR_T}, {TD_STATUS_IOC, TD_STATUS_ACTIVE},
                              IF isread THEN TD_PID_OUT ELSE TD_PID_IN, 1, 0, 0)
        data == CreateDataTDs(DataAddr, t_length[xfer], ud_max_packet_sz0,
                              IF isread THEN TD_PID_IN ELSE TD_PID_OUT,
                              <<td_handshake>>)
        hasdata == TRANSFER_FLAG_DATA \in h.t_flags[xfer]
        next_setup_ptr == IF hasdata THEN data.chain ELSE <<td_handshake>>
        td_setup == NewTD(LinkTo(next_setup_ptr), {TD_STATUS_ACTIVE}, TD_PID_SETUP, 0,
                          ControlRequestLen, ControlRequestAddr)
    IN  IF hasdata /\ data.bug
        THEN [h EXCEPT !.usb_panic = "bug"]
        ELSE ScheduleItem(h, xfer, <<td_setup>> \o next_setup_ptr, "uhci_qh_ls_control")

ScheduleInterruptTransfer(h, xfer) ==
    LET isread == TRANSFER_FLAG_READ \in h.t_flags[xfer]
        data == CreateDataTDs(DataAddr, t_length[xfer], ud_max_packet_sz0,
                              IF isread THEN TD_PID_IN ELSE TD_PID_OUT, <<>>)
        last == data.num_datapkts
        td_chain == [k \in DOMAIN data.chain |->
                       [data.chain[k] EXCEPT
                          !.td_status = IF k = last THEN @ \cup {TD_STATUS_IOC} ELSE @,
                          !.td_data = IF k = 1 THEN 0 ELSE @]]
    IN  IF data.bug
        THEN [h EXCEPT !.usb_panic = "bug"]
        ELSE ScheduleItem(h, xfer, td_chain, "uhci_qh_interrupt[0]")

\* the root-hub emulator takes the transfer and answers it later
HandleTransfer(h, xfer) == [h EXCEPT !.usb_ret = ANANAS_SUCCESS]

\* the KASSERT of line 459
AlreadyPending_Never(h, xfer) == FALSE

AlreadyPending(h, xfer) == TRANSFER_FLAG_PENDING \in h.t_flags[xfer]

\* lines 460-461
SetPending(h, xfer) ==
    [h EXCEPT !.t_flags[xfer] = @ \cup {TRANSFER_FLAG_PENDING},
              !.ud_transfers[t_device(xfer)] = Append(@, xfer)]

ScheduleTransfer(h, xfer) ==
    IF AlreadyPending(h, xfer)
    THEN [h EXCEPT !.usb_panic = "scheduling transfer that is already pending"]
    ELSE LET h1 == SetPending(h, xfer)
         IN  IF t_device(xfer) = RootHubDevice THEN HandleTransfer(h1, xfer)
             ELSE IF t_type[xfer] = TRANSFER_TYPE_CONTROL
                  THEN ScheduleControlTransfer(h1, xfer)
             ELSE IF t_type[xfer] = TRANSFER_TYPE_INTERRUPT
                  THEN ScheduleInterruptTransfer(h1, xfer)
             ELSE [h1 EXCEPT !.usb_panic = "unsupported transfer type"]

\* lines 349-350
ClearPending_KeepLinked(h, xfer) ==
    [h EXCEPT !.t_flags[xfer] = @ \ {TRANSFER_FLAG_PENDING}]

ClearPending(h, xfer) ==
    [h EXCEPT !.t_flags[xfer] = @ \ {TRANSFER_FLAG_PENDING},
              !.ud_transfers[t_device(xfer)] = SeqRemove(@, xfer)]

CancelTransfer(h, xfer) ==
    LET h1 == IF TRANSFER_FLAG_PENDING \in h.t_flags[xfer]
              THEN ClearPending(h, xfer)
              ELSE h
    IN  [h1 EXCEPT !.usb_ret = ANANAS_SUCCESS]

\* Transfer::Complete(): the transfer leaves Pending and its waiter is woken;
\* a completion callback in rearm starts the transfer again
Complete(h, xfer, rearm) ==
    LET h1 == [h EXCEPT !.t_flags[xfer] = @ \ {TRANSFER_FLAG_PENDING},
                        !.ud_transfers[t_device(xfer)] = SeqRemove(@, xfer)]
    IN  IF xfer \in rearm THEN ScheduleTransfer(h1, xfer) ELSE h1

\* the element that follows si in the list, NULL behind the last
ListNext_Stop(list, si) == NULL

ListNext(list, si) ==
    LET k == IndexOf(list, si)
    IN  IF k = Len(list) THEN NULL ELSE list[k + 1]

ListHead(list) == IF list = <<>> THEN NULL ELSE list[1]

\* line 300
FirstTDActive_Never(h, si) == FALSE

FirstTDActive(h, si) == TD_STATUS_ACTIVE \in h.si_pool[si].si_td[1].td_status

\* lines 303-311: the body of the walk for an item that finished
CompleteItem(h, si, rearm) ==
    LET xfer == h.si_pool[si].si_xfer
        v == VerifyChainAndCalculateLength(h.si_pool[si].si_td)
        h1 == [h EXCEPT !.uhci_scheduled_items = SeqRemove(@, si),
                        !.t_result_length[xfer] = v.length,
                        !.t_flags[xfer] = IF v.ok THEN @ ELSE @ \cup {TRANSFER_FLAG_ERROR},
                        !.completions[si] = @ + 1]
    IN  Complete(h1, xfer, rearm)

\* LIST_FOREACH_SAFE from si on: the successor is read before the body runs
RECURSIVE WalkScheduledItems(_, _, _)
WalkScheduledItems(h, si, rearm) ==
    IF si = NULL \/ h.usb_panic # "" THEN h
    ELSE LET next == ListNext(h.uhci_scheduled_items, si)
         IN  IF FirstTDActive(h, si)
             THEN WalkScheduledItems(h, next, rearm)
             ELSE WalkScheduledItems(CompleteItem(h, si, rearm), next, rearm)

OnIRQ(h, stat, rearm) ==
    IF UHCI_USBSTS_USBINT \in stat
    THEN WalkScheduledItems(h, ListHead(h.uhci_scheduled_items), rearm)
    ELSE h

\* the items of the list OnIRQ finds finished
Finished(h) ==
    {h.uhci_scheduled_items[k] : k \in
       {j \in DOMAIN h.uhci_scheduled_items :
          ~FirstTDActive(h, h.uhci_scheduled_items[j])}}

\* ---- the calls, as steps ----
ScheduleTransferCall(xfer) ==
    /\ usb_panic = ""
    /\ Len(ScheduleTransfer(Hcd, xfer).si_pool) <= MaxItems
    /\ SetHcd(ScheduleTransfer(Hcd, xfer))
    /\ UNCHANGED usbFixed
    /\ UNCHANGED <<schedVars, dcacheVars, vmVars, irqVars, storVars>>

CancelTransferCall(xfer) ==
    /\ usb_panic = ""
    /\ SetHcd(CancelTransfer(Hcd, xfer))
    /\ UNCHANGED usbFixed
    /\ UNCHANGED <<schedVars, dcacheVars, vmVars, irqVars, storVars>>

\* the interrupt handler; the callbacks of the transfers in rearm start
\* their transfer again
OnIRQStep(stat, rearm, cap) ==
    /\ usb_panic = ""
    /\ rearm \subseteq {si_pool[si].si_xfer : si \in Finished(Hcd)}
    /\ Len(si_pool)
         + Cardinality({si \in Finished(Hcd) : si_pool[si].si_xfer \in rearm})
         <= cap
    /\ SetHcd(OnIRQ(Hcd, stat, rearm))
    /\ UNCHANGED usbFixed
    /\ UNCHANGED <<schedVars, dcacheVars, vmVars, irqVars, storVars>>

OnIRQCall(stat, rearm) == OnIRQStep(stat, rearm, MaxItems)

\* the same with room for the items the callbacks add
OnIRQRearm(stat, rearm) == OnIRQStep(stat, rearm, MaxItems + MaxRearmed)

\* the root-hub emulator answers a transfer it was handed
RootHubComplete(xfer) ==
    /\ usb_panic = ""
    /\ t_device(xfer) = RootHubDevice
    /\ TRANSFER_FLAG_PENDING \in t_flags[xfer]
    /\ SetHcd(Complete(Hcd, xfer, {}))
    /\ UNCHANGED usbFixed
    /\ UNCHANGED <<schedVars, dcacheVars, vmVars, irqVars, storVars>>

\* the host controller executes the next TD of the chain a queue head's
\* element pointer holds: the TD loses Active and gets its actual length,
\* or it stalls and the queue stops
HcExecute(qh, stalled) ==
    /\ usb_panic = ""
    /\ qh_first_td[qh] # NULL
    /\ LET si == qh_first_td[qh]
           chain == si_pool[si].si_td
           active == {k \in DOMAIN chain : TD_STATUS_ACTIVE \in chain[k].td_status}
       IN  /\ active # {}
           /\ \A k \in DOMAIN chain : TD_STATUS_STALLED \notin chain[k].td_status
           /\ LET k == CHOOSE k \in active : \A j \in active : k <= j
                  td == [chain[k] EXCEPT
                           !.td_status = IF stalled
                                         THEN (@ \ {TD_STATUS_ACTIVE}) \cup {TD_STATUS_STALLED}
                                         ELSE @ \ {TD_STATUS_ACTIVE},
                           !.td_actlen = IF stalled THEN @ ELSE chain[k].td_maxlen]
              IN  si_pool' = [si_pool EXCEPT ![si].si_td[k] = td]
    /\ UNCHANGED <<t_flags, t_type, t_length, t_result_length, ud_transfers,
                   uhci_scheduled_items, qh_first_td, completions, usb_ret, usb_panic,
                   ud_max_packet_sz0, qh_next_qh, attach_i>>
    /\ UNCHANGED <<schedVars, dcacheVars, vmVars, irqVars, storVars>>

\* ---- Attach(): the schedule the host controller walks ----
UHCI_FRAMELIST_LEN    == 1024
UHCI_NUM_INTERRUPT_QH == 6
QH_PTR_T == "T"

\* uhci_qh_interrupt[n], n = 0..5
uhci_qh_interrupt(n) ==
    <<"uhci_qh_interrupt[0]", "uhci_qh_interrupt[1]", "uhci_qh_interrupt[2]",
      "uhci_qh_interrupt[3]", "uhci_qh_interrupt[4]", "uhci_qh_interrupt[5]">>[n + 1]

AllQueueHeads ==
    {uhci_qh_interrupt(n) : n \in 0..(UHCI_NUM_INTERRUPT_QH - 1)}
    \cup {"uhci_qh_ls_control", "uhci_qh_fs_control", "uhci_qh_bulk"}

\* AllocateQH(), lines 218-224: every queue head ends the schedule
Unlinked == [qh \in AllQueueHeads |-> QH_PTR_T]

\* the UHCI_LINK_QH calls of lines 528-534
LinkedQHs ==
    [qh \in AllQueueHeads |->
       IF \E n \in 1..(UHCI_NUM_INTERRUPT_QH - 1) : qh = uhci_qh_interrupt(n)
       THEN uhci_qh_interrupt(
                (CHOOSE n \in 1..(UHCI_NUM_INTERRUPT_QH - 1) : qh = uhci_qh_interrupt(n)) - 1)
       ELSE IF qh = uhci_qh_interrupt(0) THEN "uhci_qh_ls_control"
       ELSE IF qh = "uhci_qh_ls_control" THEN "uhci_qh_fs_control"
       ELSE IF qh = "uhci_qh_fs_control" THEN "uhci_qh_bulk"
       ELSE Unlinked[qh]]

\* the switch of lines 544-550: the interrupt queue head of frame i
FrameIndex(i) ==
    LET low == i % 32      \* i & 31
    IN  IF low = 1 THEN 1 ELSE IF low = 2 THEN 2 ELSE IF low = 4 THEN 3
        ELSE IF low = 8 THEN 4 ELSE IF low = 16 THEN 5 ELSE 0

\* the frame list as far as Attach() has written it, line 552
uhci_framelist == [i \in 0..(attach_i - 1) |-> uhci_qh_interrupt(FrameIndex(i))]

\* lines 528-534
AttachLinkQHs ==
    /\ qh_next_qh = Unlinked
    /\ attach_i = 0
    /\ qh_next_qh' = LinkedQHs
    /\ UNCHANGED <<t_flags, t_type, t_length, t_result_length, ud_transfers,
                   uhci_scheduled_items, si_pool, qh_first_td, completions, usb_ret,
                   usb_panic, ud_max_packet_sz0, attach_i>>
    /\ UNCHANGED <<schedVars, dcacheVars, vmVars, irqVars, storVars>>

\* one turn of the loop of lines 542-553
AttachFrame ==
    /\ qh_next_qh # Unlinked
    /\ attach_i < UHCI_FRAMELIST_LEN
    /\ attach_i' = attach_i + 1
    /\ UNCHANGED <<t_flags, t_type, t_length, t_result_length, ud_transfers,
                   uhci_scheduled_items, si_pool, qh_first_td, completions, usb_ret,
                   usb_panic, ud_max_packet_sz0, qh_next_qh>>
    /\ UNCHANGED <<schedVars, dcacheVars, vmVars, irqVars, storVars>>

\* what a transfer is, as its owner set it up before the first call
XferShapes ==
    {[t_type |-> TRANSFER_TYPE_CONTROL, t_length |-> 0, t_flags |-> {}],
     [t_type |-> TRANSFER_TYPE_CONTROL, t_length |-> 1,
      t_flags |-> {TRANSFER_FLAG_READ, TRANSFER_FLAG_DATA}],
     [t_type |-> TRANSFER_TYPE_INTERRUPT, t_length |-> 1,
      t_flags |-> {TRANSFER_FLAG_READ}],
     [t_type |-> TRANSFER_TYPE_BULK, t_length |-> 1,
      t_flags |-> {TRANSFER_FLAG_READ}]}

\* Attach(): no scheduled item, empty queue heads, nothing pending
UsbStart ==
    /\ t_result_length = [x \in Transfers |-> NONE]
    /\ ud_transfers = [d \in Devices |-> <<>>]
    /\ uhci_scheduled_items = <<>>
    /\ si_pool = <<>>
    /\ qh_first_td = [q \in QueueHeads |-> NULL]
    /\ completions = <<>>
    /\ usb_ret = VOID
    /\ usb_panic = ""

\* Attach() has run to its end
Attached ==
    /\ qh_next_qh = LinkedQHs
    /\ attach_i = UHCI_FRAMELIST_LEN

\* the packet size of the device in the driver's runs
DevicePacketSize == 2

\* Attach() has allocated the queue heads, line 523
AttachInit ==
    /\ qh_next_qh = Unlinked
    /\ attach_i = 0
    /\ t_type = [x \in Transfers |-> TRANSFER_TYPE_CONTROL]
    /\ t_length = [x \in Transfers |-> 0]
    /\ t_flags = [x \in Transfers |-> {}]
    /\ ud_max_packet_sz0 = DevicePacketSize
    /\ UsbStart

UsbBoot ==
    /\ ud_max_packet_sz0 = DevicePacketSize
    /\ Attached
    /\ t_type = [x \in Transfers |-> TRANSFER_TYPE_CONTROL]
    /\ t_length = [x \in Transfers |-> 0]
    /\ t_flags = [x \in Transfers |-> {}]
    /\ UsbStart

\* transfer 1 is the root hub's, transfer 2 a control read with a data
\* stage, transfer 3 of any shape
UsbInit ==
    /\ \E shape \in [Transfers -> XferShapes] :
         /\ shape[1] = [t_type |-> TRANSFER_TYPE_CONTROL, t_length |-> 0, t_flags |-> {}]
         /\ shape[2].t_type = TRANSFER_TYPE_CONTROL /\ shape[2].t_length = 1
         /\ t_type = [x \in Transfers |-> shape[x].t_type]
         /\ t_length = [x \in Transfers |-> shape[x].t_length]
         /\ t_flags = [x \in Transfers |-> shape[x].t_flags]
    /\ ud_max_packet_sz0 = DevicePacketSize
    /\ Attached
    /\ UsbStart

\* ---- building chains: transfers of every length on devices of every
\* packet size, scheduled and never executed ----
MaxSize   == 5          \* bytes of data of a transfer at most
MaxPacket == 3          \* maximum packet size of a device at most

\* transfer 2 is a control or an interrupt transfer of any length and
\* direction, with or without a data stage; an interrupt transfer has data
ChainInit ==
    /\ ud_max_packet_sz0 \in 1..MaxPacket
    /\ \E type \in {TRANSFER_TYPE_CONTROL, TRANSFER_TYPE_INTERRUPT},
          size \in 0..MaxSize,
          flags \in SUBSET {TRANSFER_FLAG_READ, TRANSFER_FLAG_DATA} :
         /\ type = TRANSFER_TYPE_INTERRUPT => size >= 1
         /\ t_type = [x \in Transfers |-> IF x = 2 THEN type ELSE TRANSFER_TYPE_CONTROL]
         /\ t_length = [x \in Transfers |-> IF x = 2 THEN size ELSE 0]
         /\ t_flags = [x \in Transfers |-> IF x = 2 THEN flags ELSE {}]
    /\ Attached
    /\ UsbStart

\* ---- re-arming: transfer 2 is a control read of one byte, transfer 3 an
\* interrupt read of one byte, on different queue heads ----
WalkInit ==
    /\ t_type = [x \in Transfers |->
                   IF x = 3 THEN TRANSFER_TYPE_INTERRUPT ELSE TRANSFER_TYPE_CONTROL]
    /\ t_length = [x \in Transfers |-> IF x = 1 THEN 0 ELSE 1]
    /\ t_flags = [x \in Transfers |->
                    IF x = 1 THEN {} ELSE {TRANSFER_FLAG_READ, TRANSFER_FLAG_DATA}]
    /\ ud_max_packet_sz0 = DevicePacketSize
    /\ Attached
    /\ UsbStart

\* ------------------------------------------------------------------------
\* Specifications
\* ------------------------------------------------------------------------
NextSched ==
    \/ Schedule
    \/ \E t \in Threads : ThreadSuspend(t)
    \/ \E t \in Threads : ThreadResume(t)

NextDcache ==
    \/ \E fs \in Filesystems : DcacheCreateRoot(fs)
    \/ \E p \in Slots, n \in Names : DcacheLookup(p, n)
    \/ DcachePurgeOldEntries
    \/ \E d \in Slots, i \in Inodes : DcacheSetInode(d, i)
    \/ \E d \in Slots : DentryDeref(d)
    \/ \E d \in Slots : DentryUnlink(d)

\* the dentry cache with dcache_set_inode running beside the locked calls
NextDcacheRace ==
    \/ \E fs \in Filesystems : DcacheCreateRoot(fs)
    \/ \E p \in Slots, n \in Names : DcacheLookup(p, n)
    \/ DcachePurgeOldEntries
    \/ \E d \in Slots, i \in Inodes : SetInodeStore(d, i)
    \/ SetInodeClearFlag
    \/ \E d \in Slots : DentryDeref(d)
    \/ \E d \in Slots : DentryUnlink(d)

NextUsb ==
    \/ \E xfer \in Transfers : ScheduleTransferCall(xfer)
    \/ \E xfer \in Transfers : CancelTransferCall(xfer)
    \/ \E stat \in IrqStatuses, rearm \in SUBSET Transfers : OnIRQCall(stat, rearm)
    \/ \E xfer \in Transfers : RootHubComplete(xfer)
    \/ \E qh \in QueueHeads, stalled \in BOOLEAN : HcExecute(qh, stalled)

NextAttach ==
    \/ AttachLinkQHs
    \/ AttachFrame

NextIrq ==
    \/ \E no \in 0..MAX_IRQS, dev \in IrqDevices, handler \in IrqHandlers :
           irq_register(no, dev, handler)
    \/ \E no \in 0..MAX_IRQS : irq_handler(no)

NextStor ==
    \/ \E c \in Callers, args \in CallArgs : ScsiLock(c, args)
    \/ \E c \in Callers : ScsiSubmit(c)
    \/ \E c \in Callers : ScsiWake(c)
    \/ OnPipeOutCallback
    \/ \E len \in InLengths, csw \in CswShapes : OnPipeInCallback(len, csw)

NextWalk ==
    \/ \E xfer \in Transfers : ScheduleTransferCall(xfer)
    \/ \E stat \in IrqStatuses, rearm \in SUBSET Transfers : OnIRQRearm(stat, rearm)
    \/ \E qh \in QueueHeads, stalled \in BOOLEAN : HcExecute(qh, stalled)

NextChain ==
    \E xfer \in Transfers : ScheduleTransferCall(xfer)

NextVm ==
    \/ \E t \in Vmspaces, virt \in FaultAddrs : FaultEnter(t, virt)
    \/ \E t \in Vmspaces : FaultLookup(t)
    \/ \E t \in Vmspaces : FaultCreate(t)
    \/ \E t \in Vmspaces : FaultFill(t)
    \/ \E t \in Vmspaces : FaultInstall(t)
    \/ \E t \in Vmspaces : FaultAnonMap(t)
    \/ \E t \in Vmspaces : FaultAnonZero(t)
    \/ \E t \in Vmspaces : FaultAnonRemap(t)
    \/ \E vs \in Vmspaces, addr \in FaultAddrs : VmWrite(vs, addr)

InitSched  == SchedInit /\ DcacheInit /\ VmBoot /\ UsbBoot /\ IrqInit /\ StorInit
InitDcache == SchedBoot /\ DcacheInit /\ VmBoot /\ UsbBoot /\ IrqInit /\ StorInit
InitVm     == SchedBoot /\ DcacheInit /\ VmInit /\ UsbBoot /\ IrqInit /\ StorInit
InitUsb    == SchedBoot /\ DcacheInit /\ VmBoot /\ UsbInit /\ IrqInit /\ StorInit
InitWalk   == SchedBoot /\ DcacheInit /\ VmBoot /\ WalkInit /\ IrqInit /\ StorInit
InitChain  == SchedBoot /\ DcacheInit /\ VmBoot /\ ChainInit /\ IrqInit /\ StorInit
InitAttach == SchedBoot /\ DcacheInit /\ VmBoot /\ AttachInit /\ IrqInit /\ StorInit
InitIrq    == SchedBoot /\ DcacheInit /\ VmBoot /\ UsbBoot /\ IrqInit /\ StorInit
InitStor   == SchedBoot /\ DcacheInit /\ VmBoot /\ UsbBoot /\ IrqInit /\ StorInit

\* the scheduler alone, from every state schedule() can be called in
SpecSched  == InitSched /\ [][NextSched]_vars
\* the dentry cache alone, from dcache_init()
SpecDcache == InitDcache /\ [][NextDcache]_vars
\* the page-fault handler alone, two address spaces faulting side by side
SpecVm     == InitVm /\ [][NextVm]_vars

\* the UHCI driver alone, from Attach(), with the host controller at work
SpecUsb    == InitUsb /\ [][NextUsb]_vars

\* the chains ScheduleTransfer builds, for every length and packet size
SpecChain  == InitChain /\ [][NextChain]_vars
\* completion callbacks scheduling their transfer again during the walk
SpecWalk   == InitWalk /\ [][NextWalk]_vars

\* Attach() building the schedule
SpecAttach == InitAttach /\ [][NextAttach]_vars

\* interrupt registration and dispatch alone, from irq_init()
SpecIrq    == InitIrq /\ [][NextIrq]_vars

\* the mass-storage driver alone, from Attach(), two callers and the device
SpecStor   == InitStor /\ [][NextStor]_vars

\* the dentry cache with the stores of dcache_set_inode seen one by one
SpecDcacheRace == InitDcache /\ [][NextDcacheRace]_vars

Init == InitSched
Next == NextSched \/ NextDcache \/ NextVm \/ NextUsb \/ NextIrq \/ NextStor \/ NextDcacheRace
Spec == Init /\ [][Next]_vars

\* ------------------------------------------------------------------------
\* Scheduler claims
\* ------------------------------------------------------------------------
\* the threads of the list that follow t, wrapping to the head, t itself last
CyclicAfter(t) ==
    LET i == IndexOf(threads, t)
    IN  SubSeq(threads, i + 1, Len(threads)) \o SubSeq(threads, 1, i)

\* the caller's successor in insertion order among the threads that are scheduled
RoundRobinSuccessor(t) ==
    LET c == SelectSeq(CyclicAfter(t), LAMBDA x : x # IdleThread) IN c[1]

\* every thread of the list (the idle thread aside) can run; only the caller is ACTIVE
AllRunnable ==
    \A t \in Range(threads) \ {IdleThread} :
        /\ THREAD_FLAG_SUSPENDED \notin tflags[t]
        /\ THREAD_FLAG_ACTIVE \in tflags[t] => t = curthread

\* C1: round-robin order. When every thread of the list is runnable, a
\* schedule() call by a thread of the list makes the caller's successor in
\* list order current, wrapping from the last thread to the head of the list.
C1_RoundRobin ==
    [][ (Schedule /\ curthread \in Threads /\ curthread \in Range(threads) /\ AllRunnable)
            => curthread' = RoundRobinSuccessor(curthread) ]_vars

\* C1 as the code has it: the order holds as soon as the list has a second
\* thread to switch to.
C1_RoundRobinOthers ==
    [][ (/\ Schedule /\ curthread \in Threads /\ curthread \in Range(threads) /\ AllRunnable
         /\ Range(threads) \ {IdleThread, curthread} # {})
            => curthread' = RoundRobinSuccessor(curthread) ]_vars

\* ------------------------------------------------------------------------
\* Dentry cache claims
\* ------------------------------------------------------------------------
\* d is an in-use entry for (parent, entry)
EntryFor(d, parent, entry) ==
    /\ d \in Range(dcache_inuse)
    /\ dentries[d].d_parent = parent
    /\ dentries[d].d_entry = entry

Resolved(d) ==
    dentries[d].d_inode # NULL \/ DENTRY_FLAG_NEGATIVE \in dentries[d].d_flags

\* C2: a lookup that finds a resolved in-use entry for (parent, name) adds
\* exactly 1 to its refcount, returns it, puts it at the head of the in-use
\* list and keeps the order of all other in-use entries (and changes no other
\* entry).
C2_HitMovesToFront ==
    [][ \A p \in Slots, n \in Names, d \in Slots :
          (EntryFor(d, p, n) /\ Resolved(d) /\ DcacheLookup(p, n))
          => /\ ret' = d
             /\ dentries' = [dentries EXCEPT ![d].d_refcount = dentries[d].d_refcount + 1]
             /\ dcache_inuse'[1] = d
             /\ Len(dcache_inuse') = Len(dcache_inuse)
             /\ SeqRemove(dcache_inuse', d) = SeqRemove(dcache_inuse, d) ]_vars

\* C2 witness: a hit has just been returned for an entry that has two other
\* in-use entries behind it, one of them its own child: a child is created
\* in front of its parent, so the hit has moved the entry forward.
C2_Witness ==
    /\ ret \in Slots
    /\ Len(dcache_inuse) >= 3
    /\ dcache_inuse[1] = ret
    /\ DENTRY_FLAG_ROOT \notin dentries[ret].d_flags
    /\ Resolved(ret)
    /\ dentries[ret].d_refcount >= 2
    /\ \E c \in Range(dcache_inuse) : dentries[c].d_parent = ret

\* C3: a lookup that returns does so with NULL exactly when an in-use entry
\* for (parent, name) is pending (inode NULL, Negative clear); a NULL return
\* changes no refcount, no list and no entry.
C3_NullIffPending ==
    [][ \A p \in Slots, n \in Names :
          (DcacheLookup(p, n) /\ panic' = "")
          => /\ (ret' = NULL) <=>
                    (\E d \in Slots : EntryFor(d, p, n) /\ ~Resolved(d))
             /\ (ret' = NULL) =>
                    UNCHANGED <<dentries, dcache_inuse, dcache_free, i_refcount, held>> ]_vars

\* C3 witness: a lookup has just returned NULL while the pending entry is
\* still owned by its first caller.
C3_Witness ==
    /\ ret = NULL
    /\ \E d \in Range(dcache_inuse) :
          /\ dentries[d].d_entry \in Names
          /\ dentries[d].d_parent # NULL
          /\ ~Resolved(d)
          /\ dentries[d].d_refcount = 1

\* C4: miss, pending, resolve.
\*  (a) a lookup that finds no in-use entry for (parent, name) returns a slot
\*      with refcount 1, inode NULL, Negative clear, at the head of the in-use
\*      list, and the parent's refcount is 1 higher;
\*  (b) while that entry is pending every lookup of (parent, name) returns
\*      NULL and leaves the entry as it is;
\*  (c) dcache_set_inode leaves the refcount alone, and the lookup that finds
\*      the entry resolved with its first caller's reference only returns
\*      that same entry with refcount 2.
C4_MissPendingResolve ==
    [][ /\ \A p \in Slots, n \in Names :
            DcacheLookup(p, n) =>
                LET found == {d \in Slots : EntryFor(d, p, n)}
                IN  IF found = {}
                    THEN panic' = ""
                         => /\ ret' \in Slots
                            /\ dentries'[ret'].d_refcount = 1
                            /\ dentries'[ret'].d_inode = NULL
                            /\ dentries'[ret'].d_flags = {}
                            /\ dentries'[ret'].d_parent = p
                            /\ dentries'[ret'].d_entry = n
                            /\ dcache_inuse'[1] = ret'
                            /\ ret' # p
                            /\ dentries'[p].d_refcount = dentries[p].d_refcount + 1
                    ELSE \A d \in found :
                            /\ ~Resolved(d)
                               => /\ ret' = NULL
                                  /\ dentries'[d] = dentries[d]
                            /\ (dentries[d].d_inode # NULL /\ dentries[d].d_refcount = 1)
                               => /\ ret' = d
                                  /\ dentries'[d].d_refcount = 2
        /\ \A d \in Slots, i \in Inodes :
            DcacheSetInode(d, i)
            => /\ dentries'[d].d_refcount = dentries[d].d_refcount
               /\ dentries'[d].d_parent = dentries[d].d_parent
               /\ dentries'[d].d_entry = dentries[d].d_entry
               /\ dentries'[d].d_inode = i ]_vars

\* C4 witness: the entry a miss created has been resolved by set_inode and
\* then handed to a second caller: two callers own it, refcount 2.
C4_Witness ==
    /\ ret \in Slots
    /\ dentries[ret].d_parent # NULL
    /\ dentries[ret].d_inode # NULL
    /\ DENTRY_FLAG_NEGATIVE \notin dentries[ret].d_flags
    /\ dentries[ret].d_refcount = 2
    /\ held[ret] = 2

\* the number of dentries whose d_inode is i
InodeUsers(dents, i) == Cardinality({d \in Slots : dents[d].d_inode = i})

\* C5: a dentry whose refcount drops to 0 stays an in-use entry for its
\* (parent, name) with its inode, so that the next lookup of (parent, name)
\* by an owner of the parent hits it instead of taking a new slot.
C5_Rediscoverable ==
    [][ \A d \in Slots :
          (/\ DentryDeref(d)
           /\ dentries[d].d_parent # NULL
           /\ dentries[d].d_inode # NULL
           /\ dentries'[d].d_refcount = 0
           /\ held'[dentries[d].d_parent] > 0)
          => /\ d \in Range(dcache_inuse')
             /\ dentries'[d].d_inode = dentries[d].d_inode
             /\ dentries'[d].d_entry = dentries[d].d_entry
             /\ dentries'[d].d_parent = dentries[d].d_parent ]_vars

\* C6: every inode's refcount is at least the number of dentries whose
\* d_inode is that inode, in every reachable state; and every step changes
\* the refcount by exactly the change in that number (set_inode takes one
\* reference, unlink, purge and eviction give exactly one back).
C6_InodeRefs ==
    \A i \in Inodes : i_refcount[i] >= InodeUsers(dentries, i)

C6_InodeRefsStep ==
    \A i \in Inodes :
        i_refcount'[i] - i_refcount[i] = InodeUsers(dentries', i) - InodeUsers(dentries, i)

C6_InodeRefcount == []C6_InodeRefs /\ [][C6_InodeRefsStep]_vars

\* C6 witness: two dentries share one inode and hold its two references; a
\* third slot has been used and given back to the free list by a purge.
C6_Witness ==
    /\ \E i \in Inodes : InodeUsers(dentries, i) = 2 /\ i_refcount[i] = 2
    /\ dcache_free # <<>>
    /\ dentries[dcache_free[1]].d_entry \in Names

\* the positions of the in-use entries with refcount 0 and without the Root flag
ZeroRefPositions ==
    {k \in DOMAIN dcache_inuse :
        /\ dentries[dcache_inuse[k]].d_refcount = 0
        /\ DENTRY_FLAG_ROOT \notin dentries[dcache_inuse[k]].d_flags}

\* the call needs a slot: create_root, or a lookup that finds no entry
TakesSlot ==
    \/ \E fs \in Filesystems : DcacheCreateRoot(fs)
    \/ \E p \in Slots, n \in Names :
          (~\E d \in Slots : EntryFor(d, p, n)) /\ DcacheLookup(p, n)

\* C7: slot selection. A call that needs a slot takes the head of the free
\* list when there is one; else the in-use entry nearest the tail that has
\* refcount 0 and is not Root, giving its inode reference back; else the
\* kernel panics ("out of dentries" in create_root, "dcache full" in lookup)
\* and nothing changes. No step removes an entry with refcount > 0 or with
\* the Root flag from the in-use list.
C7_SlotSelection ==
    [][ /\ TakesSlot =>
              IF dcache_free # <<>>
              THEN /\ panic' = ""
                   /\ ret' = Head(dcache_free)
                   /\ reclaimed' = NULL
                   /\ dcache_free' = Tail(dcache_free)
                   /\ dcache_inuse' = <<ret'>> \o dcache_inuse
                   /\ i_refcount' = i_refcount
              ELSE IF ZeroRefPositions # {}
              THEN LET k == CHOOSE k \in ZeroRefPositions : \A j \in ZeroRefPositions : j <= k
                       v == dcache_inuse[k]
                       i == dentries[v].d_inode
                   IN  /\ panic' = ""
                       /\ ret' = v
                       /\ reclaimed' = v
                       /\ dcache_free' = <<>>
                       /\ dcache_inuse' = <<v>> \o SeqRemove(dcache_inuse, v)
                       /\ dentries'[v].d_inode = NULL
                       /\ i_refcount' = IF i = NULL THEN i_refcount
                                        ELSE [i_refcount EXCEPT ![i] = i_refcount[i] - 1]
              ELSE /\ panic' = IF \E fs \in Filesystems : DcacheCreateRoot(fs)
                               THEN "out of dentries" ELSE "dcache full"
                   /\ UNCHANGED <<dentries, dcache_inuse, dcache_free, i_refcount, held>>
        /\ \A d \in Range(dcache_inuse) :
              (dentries[d].d_refcount > 0 \/ DENTRY_FLAG_ROOT \in dentries[d].d_flags)
              => (d \in Range(dcache_inuse') /\ reclaimed' # d) ]_vars

\* C7 witness: the last call found the free list empty and took over an
\* in-use entry while a younger entry with refcount 0 was left in the list.
C7_Witness ==
    /\ reclaimed \in Slots
    /\ ret = reclaimed
    /\ dcache_inuse[1] = reclaimed
    /\ \E k \in DOMAIN dcache_inuse :
          /\ k > 1
          /\ dentries[dcache_inuse[k]].d_refcount = 0
          /\ DENTRY_FLAG_ROOT \notin dentries[dcache_inuse[k]].d_flags

\* dentry_deref(d) lowers the refcount of d, and of each ancestor whose child
\* reaches 0
RECURSIVE ReleasedBy(_)
ReleasedBy(d) ==
    IF dentries[d].d_refcount = 1 /\ dentries[d].d_parent # NULL
    THEN {d} \cup ReleasedBy(dentries[d].d_parent)
    ELSE {d}

\* C8: dentry_deref(d) lowers d's refcount by 1; when it reaches 0 the
\* reference on the parent is given back, and so on up the ancestors that
\* reach 0 too; no other refcount changes; d stays on the in-use list with
\* its inode, and neither list nor any inode reference changes.
C8_Deref ==
    [][ \A d \in Slots :
          DentryDeref(d)
          => /\ panic' = ""
             /\ \A s \in Slots :
                   dentries'[s].d_refcount =
                       dentries[s].d_refcount - (IF s \in ReleasedBy(d) THEN 1 ELSE 0)
             /\ \A s \in Slots : dentries'[s].d_inode = dentries[s].d_inode
             /\ d \in Range(dcache_inuse')
             /\ UNCHANGED <<dcache_inuse, dcache_free, i_refcount>> ]_vars

\* C8 witness: two entries, a child and its parent, are at refcount 0
\* after a deref; both are still in use and the child holds its inode.
C8_Witness ==
    /\ ret = NONE
    /\ \E c, q \in Range(dcache_inuse) :
          /\ c # q
          /\ dentries[c].d_refcount = 0 /\ dentries[q].d_refcount = 0
          /\ dentries[c].d_entry \in Names /\ dentries[q].d_entry \in Names
          /\ dentries[c].d_inode # NULL
          /\ held[c] = 0 /\ held[q] = 0
    /\ \E r \in Range(dcache_inuse) :
          DENTRY_FLAG_ROOT \in dentries[r].d_flags /\ dentries[r].d_refcount = 1

\* C9: dcache_set_inode(d, inode) adds 1 to inode's refcount and takes 1
\* from the refcount of the inode d had (nothing overall when that is the
\* same inode), sets d.inode, clears Negative; d's refcount, every other
\* dentry and both lists stay as they are.
C9_SetInode ==
    [][ \A d \in Slots, i \in Inodes :
          DcacheSetInode(d, i)
          => LET old == dentries[d].d_inode
             IN  /\ \A j \in Inodes :
                       i_refcount'[j] = i_refcount[j]
                                        + (IF j = i THEN 1 ELSE 0)
                                        - (IF j = old THEN 1 ELSE 0)
                 /\ dentries' = [dentries EXCEPT
                                    ![d].d_inode = i,
                                    ![d].d_flags = dentries[d].d_flags \ {DENTRY_FLAG_NEGATIVE}]
                 /\ UNCHANGED <<dcache_inuse, dcache_free, held, panic>> ]_vars

\* C9 witness: a dentry that was unlinked (so was Negative) holds an inode
\* again, the other inode is no longer referenced, and a second dentry
\* shares the inode.
C9_Witness ==
    \E d, e \in Range(dcache_inuse), i \in Inodes :
        /\ d # e
        /\ dentries[d].d_inode = i /\ dentries[e].d_inode = i
        /\ DENTRY_FLAG_NEGATIVE \notin dentries[d].d_flags
        /\ i_refcount[i] = 2
        /\ \A j \in Inodes \ {i} : i_refcount[j] = 0
        /\ held[d] > 0

\* C10: every slot is on exactly one of the free list and the in-use list,
\* once; the two lists hold DCACHE_ITEMS_PER_FS slots in all; no dentry on
\* the free list has the Root flag.
C10_Lists ==
    /\ NoDup(dcache_inuse \o dcache_free)
    /\ Range(dcache_inuse) \cup Range(dcache_free) = Slots
    /\ Len(dcache_inuse) + Len(dcache_free) = DCACHE_ITEMS_PER_FS
    /\ \A d \in Range(dcache_free) : DENTRY_FLAG_ROOT \notin dentries[d].d_flags

\* C10 witness: a purge has put a used slot back on the free list while a
\* root dentry with refcount 0 stays in use.
C10_Witness ==
    /\ dcache_free # <<>>
    /\ dentries[dcache_free[1]].d_entry \in Names
    /\ \E r \in Range(dcache_inuse) :
          DENTRY_FLAG_ROOT \in dentries[r].d_flags /\ dentries[r].d_refcount = 0

\* ------------------------------------------------------------------------
\* Page-fault handler claims
\* ------------------------------------------------------------------------
\* the shared vmpages of inode i at offset o
SharedPagesAt(i, o) ==
    {k \in DOMAIN i_pages[i] : vmpages[i_pages[i][k]].vp_offset = o}

TheArea(vs) == vs_areas[vs][1]

\* the page at address a of the area lies, at least in part, in the file-backed slice
InSlice(va, a) ==
    /\ va.va_dentry # NULL
    /\ a >= va.va_virt /\ a < va.va_virt + va.va_len
    /\ a - va.va_virt < va.va_dlength

\* the page at address a of the area lies wholly in the file-backed slice
WhollyInSlice(va, a) == InSlice(va, a) /\ a - va.va_virt + PAGE_SIZE <= va.va_dlength

\* the file offset behind the page at address a
OffsetOf(va, a) == a - va.va_virt + va.va_doffset

\* address space vs maps the page at a, which the area shares (no Private flag,
\* wholly in the slice)
MapsShared(vs, a) ==
    /\ pagemap[vs][a].frame # NULL
    /\ WhollyInSlice(TheArea(vs), a)
    /\ VM_FLAG_PRIVATE \notin TheArea(vs).va_flags

\* address space vs maps the page at a, of which the area has a copy of its own
MapsCopy(vs, a) ==
    /\ pagemap[vs][a].frame # NULL
    /\ InSlice(TheArea(vs), a)
    /\ ~(WhollyInSlice(TheArea(vs), a) /\ VM_FLAG_PRIVATE \notin TheArea(vs).va_flags)

\* the fault of t that is being finished is on a shared page
SharingFault(t) ==
    /\ fpc[t] = "install"
    /\ WhollyInSlice(TheArea(t), PageAlign(flocal[t].virt))
    /\ VM_FLAG_PRIVATE \notin TheArea(t).va_flags

C12_LinkStep ==
    \A t \in Vmspaces :
        (SharingFault(t) /\ FaultInstall(t))
        => /\ frames' = frames
           /\ vmpages'[Len(vmpages')].vp_link = flocal[t].vmpage
           /\ vmpages[flocal[t].vmpage].vp_offset
                  = OffsetOf(TheArea(t), PageAlign(flocal[t].virt))
           /\ pagemap'[t][PageAlign(flocal[t].virt)].frame = vmpages[flocal[t].vmpage].vp_page

C12_SameFrame ==
    \A v1, v2 \in Vmspaces, a1, a2 \in PageAddrs :
        (/\ MapsShared(v1, a1) /\ MapsShared(v2, a2)
         /\ OffsetOf(TheArea(v1), a1) = OffsetOf(TheArea(v2), a2))
        => pagemap[v1][a1].frame = pagemap[v2][a2].frame

SharedFrames ==
    UNION {{vmpages[i_pages[i][k]].vp_page : k \in DOMAIN i_pages[i]} : i \in DOMAIN i_pages}

\* the fault of t that is being finished is on a page the area gets a copy of
CopyingFault(t) ==
    /\ fpc[t] = "install"
    /\ ~(/\ WhollyInSlice(TheArea(t), PageAlign(flocal[t].virt))
          /\ VM_FLAG_PRIVATE \notin TheArea(t).va_flags)

C13_CopyStep ==
    \A t \in Vmspaces :
        (CopyingFault(t) /\ FaultInstall(t))
        => LET a == PageAlign(flocal[t].virt)
               f == pagemap'[t][a].frame
           IN  /\ f = Len(frames) + 1
               /\ Len(frames') = Len(frames) + 1
               /\ frames'[f] = frames[vmpages[flocal[t].vmpage].vp_page]
               /\ \A g \in 1..Len(frames) : frames'[g] = frames[g]

C13_WriteStep ==
    \A vs \in Vmspaces, addr \in FaultAddrs :
        (MapsCopy(vs, PageAlign(addr)) /\ VmWrite(vs, addr))
        => /\ \A g \in SharedFrames \ {NULL} : frames'[g] = frames[g]
           /\ \A v2 \in Vmspaces \ {vs}, a2 \in PageAddrs :
                 pagemap[v2][a2].frame # NULL
                 => frames'[pagemap[v2][a2].frame] = frames[pagemap[v2][a2].frame]

C13_OwnFrame ==
    \A vs \in Vmspaces, a \in PageAddrs :
        MapsCopy(vs, a)
        => /\ pagemap[vs][a].frame \notin SharedFrames
           /\ \A v2 \in Vmspaces, a2 \in PageAddrs :
                 <<v2, a2>> # <<vs, a>> => pagemap[v2][a2].frame # pagemap[vs][a].frame

InNoArea(vs, virt) ==
    \A k \in DOMAIN vs_areas[vs] :
        virt < vs_areas[vs][k].va_virt
        \/ virt >= vs_areas[vs][k].va_virt + vs_areas[vs][k].va_len

\* C14: vmspace_handle_fault with virt in no area of vs returns BAD_ADDRESS
\* and creates no vmpage, allocates no frame, changes no page list and
\* installs no mapping.
C14_BadAddress ==
    [][ \A t \in Vmspaces, virt \in FaultAddrs :
          (InNoArea(t, virt) /\ FaultEnter(t, virt))
          => /\ fret'[t] = "BAD_ADDRESS"
             /\ fpc'[t] = "idle"
             /\ vm_panic' = ""
             /\ UNCHANGED <<vs_areas, va_pages, vmpages, i_pages, frames, pagemap>> ]_vars

\* C14 witness: a fault outside the area has returned BAD_ADDRESS in an
\* address space that has a page mapped by an earlier fault.
C14_Witness ==
    \E t \in Vmspaces :
        /\ fret[t] = "BAD_ADDRESS"
        /\ va_pages[<<t, 1>>] # <<>>
        /\ \E a \in PageAddrs : pagemap[t][a].frame # NULL

C15_FillStep ==
    \A t \in Vmspaces :
        (/\ fpc[t] = "fill"
         /\ VM_PAGE_FLAG_PENDING \in vmpages[flocal[t].vmpage].vp_flags
         /\ FaultFill(t))
        => IF flocal[t].read_off + PAGE_SIZE > file_len
           THEN /\ fret'[t] = "SHORT_READ"
                /\ fpc'[t] = "idle"
                /\ vm_panic' = ""
           ELSE /\ vmpages'[flocal[t].vmpage].vp_page = Len(frames')
                /\ VM_PAGE_FLAG_PENDING \notin vmpages'[flocal[t].vmpage].vp_flags
                /\ frames'[Len(frames')] =
                       [b \in 1..PAGE_SIZE |-> FileByte(flocal[t].read_off + b - 1)]

C15_ReadOnce == \A o \in DOMAIN nreads : nreads[o] <= 1

\* C15: filling a Pending shared vmpage, a read of fewer than PAGE_SIZE bytes
\* makes vmspace_handle_fault return SHORT_READ to its caller; a full read
\* attaches the frame and clears Pending, so that the file is read at most
\* once for every (inode, offset).
C15_ShortRead == []C15_ReadOnce /\ [][C15_FillStep]_vars

\* the page at a is anonymous in the area: no dentry, or at or past dlength
Anonymous(va, a) == va.va_dentry = NULL \/ a - va.va_virt >= va.va_dlength

AllZero == [b \in 1..PAGE_SIZE |-> 0]

C16_Steps ==
    /\ \A t \in Vmspaces, virt \in FaultAddrs :
          (/\ ~InNoArea(t, virt)
           /\ TheArea(t).va_flags \cap {VM_FLAG_ALLOC, VM_FLAG_LAZY} # {}
           /\ Anonymous(TheArea(t), PageAlign(virt))
           /\ FaultEnter(t, virt))
          => /\ fpc'[t] = "anon_map"
             /\ Len(frames') = Len(frames) + 1
             /\ Len(vmpages') = Len(vmpages) + 1
             /\ vmpages'[Len(vmpages')].vp_page = Len(frames')
             /\ vmpages'[Len(vmpages')].vp_link = NULL
             /\ VM_PAGE_FLAG_PRIVATE \in vmpages'[Len(vmpages')].vp_flags
             /\ vmpages'[Len(vmpages')].vp_vaddr = PageAlign(virt)
             /\ va_pages'[<<t, 1>>] = Append(va_pages[<<t, 1>>], Len(vmpages'))
             /\ UNCHANGED <<pagemap, i_pages>>
    /\ \A t \in Vmspaces :
          (fpc[t] = "anon_map" /\ FaultAnonMap(t))
          => /\ fpc'[t] = "anon_zero"
             /\ pagemap'[t][vmpages[flocal[t].new_vp].vp_vaddr] =
                    [frame |-> vmpages[flocal[t].new_vp].vp_page,
                     flags |-> {VM_FLAG_READ, VM_FLAG_WRITE}]
             /\ frames' = frames
    /\ \A t \in Vmspaces :
          (fpc[t] = "anon_zero" /\ FaultAnonZero(t))
          => /\ fpc'[t] = "anon_remap"
             /\ pagemap[t][vmpages[flocal[t].new_vp].vp_vaddr].flags
                    = {VM_FLAG_READ, VM_FLAG_WRITE}
             /\ frames'[vmpages[flocal[t].new_vp].vp_page] = AllZero
             /\ pagemap' = pagemap
    /\ \A t \in Vmspaces :
          (fpc[t] = "anon_remap" /\ FaultAnonRemap(t))
          => /\ fret'[t] = "OK"
             /\ fpc'[t] = "idle"
             /\ frames' = frames
             /\ frames[vmpages[flocal[t].new_vp].vp_page] = AllZero
             /\ pagemap'[t][vmpages[flocal[t].new_vp].vp_vaddr] =
                    [frame |-> vmpages[flocal[t].new_vp].vp_page,
                     flags |-> TheArea(t).va_flags]

\* C16: anonymous fault. With no dentry, or at or past dlength, the handler
\* makes a private vmpage with a new frame, maps it read/write, zeroes the
\* page through that mapping and only then maps it with the flags of the
\* area; at the return the page is all zero and mapped with exactly the
\* flags of the area.
C16_Anonymous == [][C16_Steps]_vars

\* C16 witness: an anonymous page of a read-only area is mapped, all zero,
\* with the flags of the area, and the call has returned.
C16_Witness ==
    \E t \in Vmspaces, a \in PageAddrs :
        /\ fret[t] = "OK" /\ fpc[t] = "idle"
        /\ pagemap[t][a].frame # NULL
        /\ Anonymous(TheArea(t), a)
        /\ VM_FLAG_WRITE \notin TheArea(t).va_flags
        /\ pagemap[t][a].flags = TheArea(t).va_flags
        /\ frames[pagemap[t][a].frame] = AllZero

\* C17: every vmpage on the page list of an area has a page-aligned vp_vaddr
\* with area.base <= vp_vaddr < area.base + area.len.
C17_PagesInArea ==
    \A vs \in Vmspaces : \A k \in DOMAIN va_pages[<<vs, 1>>] :
        LET vaddr == vmpages[va_pages[<<vs, 1>>][k]].vp_vaddr
        IN  /\ vaddr % PAGE_SIZE = 0
            /\ TheArea(vs).va_virt <= vaddr
            /\ vaddr < TheArea(vs).va_virt + TheArea(vs).va_len

\* C17 witness: an area has two pages on its list, for its first page (the
\* fault was inside the page, not at its start) and for its second page.
C17_Witness ==
    \E vs \in Vmspaces :
        /\ Len(va_pages[<<vs, 1>>]) = 2
        /\ vmpages[va_pages[<<vs, 1>>][1]].vp_vaddr = TheArea(vs).va_virt
        /\ vmpages[va_pages[<<vs, 1>>][2]].vp_vaddr = TheArea(vs).va_virt + PAGE_SIZE
        /\ fpc[vs] = "idle"

\* ------------------------------------------------------------------------
\* UHCI driver claims
\* ------------------------------------------------------------------------
Occurrences(s, x) == Cardinality({k \in DOMAIN s : s[k] = x})

IsPending(xfer) == TRANSFER_FLAG_PENDING \in t_flags[xfer]

\* a Pending transfer is once in the list of its device and in no other
\* list, a transfer that is not Pending is in no list
C18_Linked ==
    \A xfer \in Transfers, d \in Devices :
        Occurrences(ud_transfers[d], xfer)
            = IF IsPending(xfer) /\ d = t_device(xfer) THEN 1 ELSE 0

\* ScheduleTransfer of a Pending transfer stops at the assertion and links nothing
C18_RejectStep ==
    \A xfer \in Transfers :
        (IsPending(xfer) /\ ScheduleTransferCall(xfer))
            => /\ usb_panic' # ""
               /\ UNCHANGED <<t_flags, ud_transfers, uhci_scheduled_items, si_pool>>

\* C18: whatever ScheduleTransfer, CancelTransfer and completions ran, a
\* transfer is Pending exactly when it is linked once in the pending list
\* of its own device and in no other list, and scheduling a transfer that
\* is Pending already fails the assertion instead of linking it twice.
C18_PendingList == []C18_Linked /\ [][C18_RejectStep]_vars

\* one transfer is Pending and linked while another has been completed
C18_Witness ==
    /\ usb_panic = ""
    /\ \E xfer \in Transfers : IsPending(xfer) /\ t_device(xfer) # RootHubDevice
    /\ \E si \in DOMAIN si_pool :
         completions[si] = 1 /\ ~IsPending(si_pool[si].si_xfer)

C19_CancelStep ==
    \A xfer \in Transfers :
        CancelTransferCall(xfer) =>
            /\ usb_ret' = ANANAS_SUCCESS
            /\ IF IsPending(xfer)
               THEN /\ t_flags' = [t_flags EXCEPT ![xfer] = @ \ {TRANSFER_FLAG_PENDING}]
                    /\ \A d \in Devices :
                         ud_transfers'[d] =
                             IF d = t_device(xfer)
                             THEN SelectSeq(ud_transfers[d], LAMBDA y : y # xfer)
                             ELSE ud_transfers[d]
                    /\ Occurrences(ud_transfers[t_device(xfer)], xfer) = 1
               ELSE UNCHANGED <<t_flags, t_type, t_length, t_result_length, ud_transfers,
                                uhci_scheduled_items, si_pool, qh_first_td,
                                completions, usb_panic>>

\* a second CancelTransfer leaves what the first one left
C19_Idempotent ==
    \A xfer \in Transfers :
        CancelTransfer(CancelTransfer(Hcd, xfer), xfer) = CancelTransfer(Hcd, xfer)

\* C19: CancelTransfer of a Pending transfer unlinks it from the pending
\* list of its device and clears Pending, CancelTransfer of a transfer that
\* is not Pending changes nothing, both return success, and cancelling
\* twice leaves the state cancelling once leaves.
C19_Cancel == []C19_Idempotent /\ [][C19_CancelStep]_vars

\* a scheduled transfer was cancelled: its item is on the list, none of its
\* items was completed, and it is not Pending
C19_Witness ==
    /\ usb_ret = ANANAS_SUCCESS
    /\ \E si \in Range(uhci_scheduled_items) :
         /\ ~IsPending(si_pool[si].si_xfer)
         /\ \A sj \in DOMAIN si_pool :
              si_pool[sj].si_xfer = si_pool[si].si_xfer => completions[sj] = 0

\* the first TD of the item has been executed
C20_Done(si) == TD_STATUS_ACTIVE \notin si_pool[si].si_td[1].td_status

\* what an interrupt with USBINT leaves of the list and the counts
C20_Drained ==
    /\ \A si \in Range(uhci_scheduled_items) :
         IF C20_Done(si)
         THEN /\ si \notin Range(uhci_scheduled_items')
              /\ completions'[si] = completions[si] + 1
         ELSE /\ si \in Range(uhci_scheduled_items')
              /\ si_pool'[si] = si_pool[si]
              /\ completions'[si] = completions[si]
    /\ SelectSeq(uhci_scheduled_items', LAMBDA si : si \in DOMAIN si_pool)
         = SelectSeq(uhci_scheduled_items, LAMBDA si : ~C20_Done(si))
    /\ \A si \in DOMAIN si_pool \ Range(uhci_scheduled_items) :
         completions'[si] = completions[si]

\* what an interrupt without USBINT leaves: everything
C20_Idle ==
    UNCHANGED <<t_flags, t_type, t_length, t_result_length, ud_transfers,
                uhci_scheduled_items, si_pool, qh_first_td, completions, usb_panic>>

C20_IrqStep ==
    \A stat \in IrqStatuses :
        \A rearm \in SUBSET {si_pool[si].si_xfer :
                               si \in {sj \in Range(uhci_scheduled_items) : C20_Done(sj)}} :
            OnIRQCall(stat, rearm) =>
                IF UHCI_USBSTS_USBINT \in stat THEN C20_Drained ELSE C20_Idle

C20_Once == \A si \in DOMAIN si_pool : completions[si] <= 1

\* C20: an interrupt with USBINT takes off the scheduled-item list exactly
\* the items whose first TD is not Active and calls Complete() once for each
\* of them, the items whose first TD is Active stay as they are; an
\* interrupt without USBINT removes, completes and schedules nothing; no
\* item is completed twice.
C20_Completion == []C20_Once /\ [][C20_IrqStep]_vars

\* an interrupt completed one item and left an item with an Active first TD
C20_Witness ==
    /\ usb_panic = ""
    /\ \E si \in DOMAIN si_pool : completions[si] = 1 /\ si \notin Range(uhci_scheduled_items)
    /\ \E si \in Range(uhci_scheduled_items) : ~C20_Done(si)

\* the chain of the item has been executed to its end
C21_Executed(si) ==
    \A k \in DOMAIN si_pool[si].si_td :
        TD_STATUS_ACTIVE \notin si_pool[si].si_td[k].td_status

C21_HasError(si) ==
    \E k \in DOMAIN si_pool[si].si_td :
        si_pool[si].si_td[k].td_status \cap TD_STATUS_ERRORS # {}

\* the bytes the data stage of an IN transfer received
RECURSIVE C21_DataBytes(_, _)
C21_DataBytes(chain, k) ==
    IF k > Len(chain) THEN 0
    ELSE (IF chain[k].td_pid = TD_PID_IN THEN chain[k].td_actlen ELSE 0)
         + C21_DataBytes(chain, k + 1)

\* a control IN transfer with a data stage, scheduled once, whose chain ran
\* to its end without an error, is being completed
C21_Completing(si) ==
    /\ si \in Range(uhci_scheduled_items)
    /\ completions'[si] = completions[si] + 1
    /\ t_type[si_pool[si].si_xfer] = TRANSFER_TYPE_CONTROL
    /\ {TRANSFER_FLAG_READ, TRANSFER_FLAG_DATA} \subseteq t_flags[si_pool[si].si_xfer]
    /\ \A sj \in DOMAIN si_pool : si_pool[sj].si_xfer = si_pool[si].si_xfer => sj = si
    /\ C21_Executed(si)

C21_LengthStep ==
    \A si \in DOMAIN si_pool :
        (C21_Completing(si) /\ ~C21_HasError(si)) =>
            /\ t_result_length'[si_pool[si].si_xfer]
                 = C21_DataBytes(si_pool[si].si_td, 1)
            /\ TRANSFER_FLAG_ERROR \notin t_flags'[si_pool[si].si_xfer]

C21_ErrorStep ==
    \A si \in DOMAIN si_pool :
        (C21_Completing(si) /\ si_pool'[si] = si_pool[si]) =>
            (TRANSFER_FLAG_ERROR \in t_flags'[si_pool[si].si_xfer] <=> C21_HasError(si))

\* C21: when OnIRQ completes a control IN transfer whose chain of SETUP,
\* data TDs and HANDSHAKE ran without an error bit, the result length is
\* the number of bytes the data stage received and Error is not set; Error
\* is set exactly when a TD of the chain has an error bit.
C21_ControlResult == [][C21_LengthStep /\ C21_ErrorStep]_vars

\* the chain of a scheduled item of a control transfer:
\* SETUP, the data stage, HANDSHAKE
C22_Shape(si) ==
    LET chain == si_pool[si].si_td
        flags == t_flags[si_pool[si].si_xfer]
        isread == TRANSFER_FLAG_READ \in flags
        n == Len(chain)
    IN  /\ n >= 2
        /\ chain[1].td_pid = TD_PID_SETUP
        /\ chain[1].td_data = 0
        /\ chain[1].td_buffer = ControlRequestAddr
        /\ \A k \in 2..n : chain[k].td_pid # TD_PID_SETUP
        /\ TRANSFER_FLAG_DATA \notin flags => n = 2
        /\ \A k \in 2..(n - 1) :
             /\ chain[k].td_pid = IF isread THEN TD_PID_IN ELSE TD_PID_OUT
             /\ k + 1 < n => chain[k].td_buffer < chain[k + 1].td_buffer
        /\ chain[n].td_pid = IF isread THEN TD_PID_OUT ELSE TD_PID_IN
        /\ chain[n].td_data = 1
        /\ chain[n].td_linkptr = {TD_LINKPTR_T}
        /\ \A k \in 1..(n - 1) : TD_LINKPTR_T \notin chain[k].td_linkptr
        /\ \A k \in 1..n :
             /\ TD_STATUS_ACTIVE \in chain[k].td_status
             /\ TD_STATUS_IOC \in chain[k].td_status <=> k = n

C22_Shapes ==
    \A si \in DOMAIN si_pool :
        t_type[si_pool[si].si_xfer] = TRANSFER_TYPE_CONTROL => C22_Shape(si)

\* the step that schedules a control transfer registers the new item last
\* on the list and publishes it in the control queue head
C22_PublishStep ==
    \A si \in DOMAIN si_pool' \ DOMAIN si_pool :
        t_type[si_pool'[si].si_xfer] = TRANSFER_TYPE_CONTROL =>
            /\ si_pool'[si].si_td[1].td_pid = TD_PID_SETUP
            /\ uhci_scheduled_items' = Append(uhci_scheduled_items, si)
            /\ qh_first_td'["uhci_qh_ls_control"] = si

\* C22: the chain published for a control transfer is one SETUP TD (DATA0,
\* the control-request block), the data TDs in increasing buffer order if
\* the transfer has the Data flag, and one HANDSHAKE TD of the opposite
\* direction (DATA1, terminator); only the HANDSHAKE TD interrupts on
\* completion, every TD is Active, and the scheduled item starts at SETUP.
C22_ControlChain == []C22_Shapes /\ [][C22_PublishStep]_vars

\* a control read with a data stage of three TDs has been published
C22_Witness ==
    \E si \in DOMAIN si_pool :
        /\ t_type[si_pool[si].si_xfer] = TRANSFER_TYPE_CONTROL
        /\ {TRANSFER_FLAG_READ, TRANSFER_FLAG_DATA} \subseteq t_flags[si_pool[si].si_xfer]
        /\ Len(si_pool[si].si_td) = 5
        /\ qh_first_td["uhci_qh_ls_control"] = si

\* The queue heads the host controller meets from queue head qh on, following
\* the head pointers for at most fuel steps.
RECURSIVE C23_Walk(_, _)
C23_Walk(qh, fuel) ==
    IF qh = QH_PTR_T \/ fuel = 0 THEN <<>>
    ELSE <<qh>> \o C23_Walk(qh_next_qh[qh], fuel - 1)

C23_FrameWalk(i) == C23_Walk(uhci_framelist[i], Cardinality(AllQueueHeads) + 1)

C23_Visits(i, qh) == \E j \in DOMAIN C23_FrameWalk(i) : C23_FrameWalk(i)[j] = qh

RECURSIVE C23_Pow2(_)
C23_Pow2(k) == IF k = 0 THEN 1 ELSE 2 * C23_Pow2(k - 1)

\* interrupt[n], ..., interrupt[0], LS control, FS control, bulk
C23_Tail(n) ==
    [j \in 1..(n + 1) |-> uhci_qh_interrupt(n + 1 - j)]
    \o <<"uhci_qh_ls_control", "uhci_qh_fs_control", "uhci_qh_bulk">>

C23_Windows ==
    \A k \in 0..(UHCI_NUM_INTERRUPT_QH - 1) : \A w \in 0..(UHCI_FRAMELIST_LEN - 1) :
        \E j \in 0..(C23_Pow2(k) - 1) :
            C23_Visits((w + j) % UHCI_FRAMELIST_LEN, uhci_qh_interrupt(k))

C23_Chains ==
    \A i \in 0..(UHCI_FRAMELIST_LEN - 1) :
        C23_FrameWalk(i) = C23_Tail(FrameIndex(i))

\* C23: once Attach() has built the schedule, every window of 2^k consecutive
\* frames (mod 1024) holds a frame from which interrupt queue head k is
\* reached, for k = 0..5, and from every frame the walk passes interrupt[0],
\* LS control, FS control and bulk in that order and ends at the terminator
\* without meeting a queue head twice.
C23_Lattice == Attached => C23_Windows /\ C23_Chains

C23_ChainsOnly == Attached => C23_Chains
C23_Built == Attached

\* ------------------------------------------------------------------------
\* Scheduler claims, continued
\* ------------------------------------------------------------------------
C27_Flagged(t) ==
    ClearActive(tflags, curthread)[t] \cap {THREAD_FLAG_ACTIVE, THREAD_FLAG_SUSPENDED} # {}

\* no thread of the list the walk tests can be selected
C27_NoCandidate ==
    /\ threads # <<>>
    /\ \A t \in Range(threads) \ {curthread} : C27_Flagged(t)

C27_IdleStep ==
    (Schedule /\ C27_NoCandidate)
        => /\ curthread' = IdleThread
           /\ sched_state' = "ok"
           /\ tflags' = ClearActive(tflags, curthread)

\* the idle thread stays SUSPENDED and is never the thread the walk marks
C27_IdleSkipped ==
    /\ THREAD_FLAG_SUSPENDED \in tflags[IdleThread]
    /\ THREAD_FLAG_ACTIVE \notin tflags[IdleThread]

C28_EmptyStep == (Schedule /\ threads = <<>>) => sched_state' = "panic"

\* C28: schedule() called with an empty thread list panics; it neither
\* selects a thread nor goes on.
C28_EmptyListPanics == [][C28_EmptyStep]_vars

C30_Active == {t \in Range(threads) : THREAD_FLAG_ACTIVE \in tflags[t]}

C30_Step ==
    (Schedule /\ threads # <<>>)
        => /\ sched_state' = "ok"
           /\ curthread # NULL /\ curthread' # curthread
                  => THREAD_FLAG_ACTIVE \notin tflags'[curthread]
           /\ curthread' # IdleThread
                  => /\ THREAD_FLAG_ACTIVE \in tflags'[curthread']
                     /\ THREAD_FLAG_SUSPENDED \notin tflags'[curthread']
           /\ C30_Active' \subseteq {curthread'}

\* C30: at most one thread of the list is ACTIVE; a schedule() call clears
\* the ACTIVE flag of the thread that was current, leaves a selected thread
\* other than the idle thread ACTIVE and not SUSPENDED, and its assertion
\* holds.
C30_OneActive ==
    /\ [](Cardinality(C30_Active) <= 1)
    /\ [][C30_Step]_vars

\* a thread took over from another one while a third one was suspended
C30_Witness ==
    /\ curthread \in Threads
    /\ C30_Active = {curthread}
    /\ \E t \in Range(threads) \ {curthread, IdleThread} :
           THREAD_FLAG_SUSPENDED \in tflags[t]
    /\ \E t \in Range(threads) \ {curthread, IdleThread} :
           tflags[t] = {}

\* ------------------------------------------------------------------------
\* Interrupt dispatch claims
\* ------------------------------------------------------------------------
C29_RegisterStep ==
    \A no \in 0..MAX_IRQS, dev \in IrqDevices, handler \in IrqHandlers :
        irq_register(no, dev, handler) =>
            IF no >= MAX_IRQS
            THEN irq_panic' # "" /\ irq' = irq
            ELSE IF irq[no].handler # "NULL"
            THEN irq_ret' = 0 /\ irq' = irq /\ irq_panic' = ""
            ELSE /\ irq_ret' = 1 /\ irq_panic' = ""
                 /\ irq' = [irq EXCEPT ![no] = [dev |-> dev, handler |-> handler]]

C29_HandlerStep ==
    \A no \in 0..MAX_IRQS :
        irq_handler(no) =>
            IF no >= MAX_IRQS
            THEN irq_panic' # "" /\ irq_invoked' = irq_invoked
            ELSE IF irq[no].handler = "NULL"
            THEN irq_invoked' = irq_invoked /\ irq_panic' = "" /\ irq' = irq
            ELSE /\ irq_invoked' = Append(irq_invoked, <<irq[no].handler, irq[no].dev>>)
                 /\ irq_panic' = "" /\ irq' = irq

\* what was registered first for a vector stays
C29_FirstStays ==
    \A no \in IrqVectors : irq[no].handler # "NULL" => irq'[no] = irq[no]

\* C29: irq_register installs (dev, handler) and returns 1 only where the
\* vector has no handler, and otherwise returns 0 and leaves the table as it
\* is, so the first registration of a vector stays; irq_handler calls the
\* registered handler with its device, does nothing for a vector without
\* handler; both panic for a vector >= MAX_IRQS.
C29_Dispatch == [][C29_RegisterStep /\ C29_HandlerStep /\ C29_FirstStays]_vars

\* a second registration was refused and the first handler then called
C29_Witness ==
    /\ irq_ret = 0
    /\ irq_invoked # <<>>
    /\ \E no \in IrqVectors : irq_invoked[1] = <<irq[no].handler, irq[no].dev>>

\* ------------------------------------------------------------------------
\* USB mass-storage claims
\* ------------------------------------------------------------------------
\* caller c has posted its CBW and its CSW has not come in yet
C26_InExchange(c) == sc[c].pc = "wait" /\ sc[c].err = "UNKNOWN"

C26_ExclusiveStep ==
    \A c \in Callers : \A d \in Callers \ {c} :
        C26_InExchange(c) => ~ScsiSubmit(d)

C26_OwnStatusStep ==
    \A c \in Callers : ScsiWake(c) => sc[c].err # "UNKNOWN"

\* C26: while a caller is between posting its CBW and receiving its CSW, no
\* other caller posts a CBW or sets the shared buffer, result and CSW
\* pointers, and a caller is woken only with the status of its own request.
C26_Serialized == [][C26_ExclusiveStep /\ C26_OwnStatusStep]_vars

C26_ExclusiveOnly == [][C26_ExclusiveStep]_vars
C26_OwnStatusOnly == [][C26_OwnStatusStep]_vars

\* the mutex itself: the shared state is set by its holder only
C26_MutexHeld ==
    [][\A c \in Callers : ScsiSubmit(c) => us_mutex = c]_vars

\* a request waits for its status wrapper
C24_Waiting == us_result_ptr # NULL /\ us_csw_ptr # NULL

\* result bytes of the request are outstanding
C24_Outstanding ==
    /\ us_output_buffer # NULL
    /\ us_output_len - us_output_filled > 0

C24_Min(a, b) == IF a < b THEN a ELSE b

C24_PostStep ==
    /\ \A c \in Callers :
          ScsiSubmit(c) /\ ~p_pending["us_BulkOut"] => p_pending'["us_BulkOut"]
    /\ OnPipeOutCallback /\ ~p_pending["us_BulkIn"] => p_pending'["us_BulkIn"]

\* a completion while bytes are outstanding: at most the remaining bytes go
\* behind the bytes already there, and bulk-in is armed again
C24_DataStep ==
    \A len \in InLengths, csw \in CswShapes :
        in_count' # in_count /\ C24_Waiting /\ C24_Outstanding /\ OnPipeInCallback(len, csw) =>
            LET n == C24_Min(len, us_output_len - us_output_filled)
                b == us_output_buffer
            IN  /\ us_output_filled' = us_output_filled + n
                /\ \A i \in DOMAIN sc[b].buf :
                      sc'[b].buf[i] =
                          IF i > us_output_filled /\ i <= us_output_filled + n
                          THEN InData(in_count + 1, len)[i - us_output_filled]
                          ELSE sc[b].buf[i]
                /\ p_pending'["us_BulkIn"]
                /\ us_signal_sem' = us_signal_sem

\* a completion with nothing outstanding is the status wrapper: the caller's
\* status is set and the semaphore signalled once
C24_CswStep ==
    \A len \in InLengths, csw \in CswShapes :
        in_count' # in_count /\ C24_Waiting /\ ~C24_Outstanding /\ OnPipeInCallback(len, csw) =>
            /\ us_signal_sem' = us_signal_sem + 1
            /\ sc'[us_result_ptr].err # "UNKNOWN"
            /\ len = SizeofCSW => sc'[us_csw_ptr].csw = csw
            /\ ~C24_Waiting'

C24_OkStep ==
    \A c \in Callers :
        (/\ sc[c].err = "SUCCESS"
         /\ sc[c].csw = GoodCSW
         /\ ScsiWake(c))
            => sc'[c].ret = "SUCCESS"

\* C24: PerformSCSIRequest posts the CBW on bulk-out, the completion of
\* bulk-out arms bulk-in, every bulk-in completion while result bytes are
\* outstanding copies at most the remaining bytes in arrival order and
\* re-arms bulk-in, the first completion with no byte outstanding is the
\* CSW and signals the semaphore once, and a caller with a 13-byte CSW of
\* valid signature, tag and status returns success.
C24_Sequence == [][C24_PostStep /\ C24_DataStep /\ C24_CswStep /\ C24_OkStep]_vars

C24_AllButCsw == [][C24_PostStep /\ C24_DataStep /\ C24_OkStep]_vars

\* the CSW step where the caller asked for at least one byte or gave no buffer
C24_CswAfterData ==
    [][(\A c \in Callers : sc[c].result => sc[c].result_len \in 1..MaxResult)
          => C24_CswStep]_vars

C25_ReturnStep ==
    \A c \in Callers :
        sc[c].pc = "wait" /\ ScsiWake(c) =>
            /\ sc[c].err = "BAD_LENGTH" => sc'[c].ret = "BAD_LENGTH"
            /\ sc[c].err = "SUCCESS" =>
                  sc'[c].ret = IF \/ sc[c].csw.d_csw_signature # USBSTORAGE_CSW_SIGNATURE
                                  \/ sc[c].csw.d_csw_tag # CbwTag
                                  \/ sc[c].csw.d_csw_status # USBSTORAGE_CSW_STATUS_GOOD
                               THEN "IO" ELSE "SUCCESS"
            /\ sc'[c].ret = "SUCCESS" => sc[c].err = "SUCCESS"

\* the completion that is taken as the CSW hands length and content on
C25_ReceiveStep ==
    \A len \in InLengths, csw \in CswShapes :
        in_count' # in_count /\ us_output_buffer = NULL /\ C24_Waiting
          /\ OnPipeInCallback(len, csw) =>
            IF len # SizeofCSW
            THEN sc'[us_result_ptr].err = "BAD_LENGTH"
            ELSE sc'[us_result_ptr].err = "SUCCESS" /\ sc'[us_csw_ptr].csw = csw

\* C25: PerformSCSIRequest returns an I/O error when the CSW it received has
\* a wrong signature, a tag other than the one sent or a status other than
\* good, a length error when the CSW transfer was not of 13 bytes, and
\* success only when all of these checks pass.
C25_CswChecks == [][C25_ReturnStep /\ C25_ReceiveStep]_vars

\* a call returned an I/O error for a CSW whose only fault is its tag
C25_Witness ==
    \E c \in Callers :
        /\ sc[c].pc = "done"
        /\ sc[c].ret = "IO"
        /\ sc[c].csw = [GoodCSW EXCEPT !.d_csw_tag = CbwTag + 1]

\* ------------------------------------------------------------------------
\* Scheduler claims, the idle thread
\* ------------------------------------------------------------------------
\* t can run once the caller's ACTIVE flag is cleared
C35_Runnable(t) ==
    ClearActive(tflags, curthread)[t] \cap {THREAD_FLAG_ACTIVE, THREAD_FLAG_SUSPENDED} = {}

C35_IdleStep ==
    (Schedule /\ threads # <<>> /\ curthread' = IdleThread /\ sched_state' = "ok")
        => \A t \in Range(threads) : ~C35_Runnable(t)

\* C35: schedule() makes the idle thread current only when no thread of the
\* list, the caller included, can run; a caller that is not SUSPENDED and is
\* the only thread that can run stays current.
C35_IdleOnlyWhenNoneRunnable == [][C35_IdleStep]_vars

\* the same for the threads other than the caller, which is what the scan tests
C35_IdleStepOthers ==
    (Schedule /\ threads # <<>> /\ curthread' = IdleThread /\ sched_state' = "ok")
        => \A t \in Range(threads) \ {curthread} : ~C35_Runnable(t)

C35_OthersOnly == [][C35_IdleStepOthers]_vars

\* ------------------------------------------------------------------------
\* Dentry cache claims, locking
\* ------------------------------------------------------------------------
\* the inode pointer is set and the entry still flagged Negative
C31_HalfUpdated(de) == de.d_inode # NULL /\ DENTRY_FLAG_NEGATIVE \in de.d_flags

C31_LookupStep ==
    \A p \in Slots, n \in Names :
        (ret' \in Slots /\ DcacheLookup(p, n)) => ~C31_HalfUpdated(dentries'[ret'])

\* C31: the dentry state a lookup reads changes under the dcache mutex only,
\* so a lookup, which runs under the mutex, never returns a dentry whose
\* inode pointer is set while its Negative flag is still set.
C31_LockedMutations == [][C31_LookupStep]_vars

\* the data TDs of a published chain: all of it for an interrupt transfer,
\* what lies between SETUP and HANDSHAKE for a control transfer
C32_DataTDs(chain, type) ==
    IF type = TRANSFER_TYPE_CONTROL THEN SubSeq(chain, 2, Len(chain) - 1) ELSE chain

\* tds cut [data, data + size) into packets of m bytes and a last one of
\* 1..m bytes, in link order
C32_Chunked(tds, data, size, m) ==
    LET n == Len(tds)
    IN  /\ n = (size + m - 1) \div m
        /\ n >= 1
        /\ tds[1].td_buffer = data
        /\ \A k \in 1..(n - 1) :
             /\ tds[k].td_maxlen = m
             /\ tds[k].td_buffer + tds[k].td_maxlen = tds[k + 1].td_buffer
        /\ tds[n].td_buffer + tds[n].td_maxlen = data + size
        /\ \A k \in 1..n : tds[k].td_maxlen \in 1..m

\* the transfer has a data stage of at least one byte and may be scheduled
C32_HasData(xfer) ==
    /\ t_device(xfer) # RootHubDevice
    /\ t_length[xfer] >= 1
    /\ t_type[xfer] = TRANSFER_TYPE_CONTROL => TRANSFER_FLAG_DATA \in t_flags[xfer]
    /\ ~AlreadyPending(Hcd, xfer)

C32_ScheduleStep ==
    \A xfer \in Transfers :
        (C32_HasData(xfer) /\ ScheduleTransferCall(xfer)) =>
            /\ usb_panic' = ""
            /\ Len(si_pool') = Len(si_pool) + 1
            /\ C32_Chunked(C32_DataTDs(si_pool'[Len(si_pool')].si_td, t_type[xfer]),
                           DataAddr, t_length[xfer], ud_max_packet_sz0)

\* C32: scheduling a transfer of size >= 1 bytes on a device of packet size
\* m >= 1 passes the closing assertion of CreateDataTDs and publishes
\* ceil(size/m) data TDs whose buffers are contiguous, cover exactly
\* [data, data + size), are 1..m bytes long and m bytes long except the last.
C32_Chunking == [][C32_ScheduleStep]_vars

\* the same for the lengths the loop handles: size is not a multiple of m,
\* or is m itself
C32_OddStep ==
    \A xfer \in Transfers :
        (/\ t_length[xfer] % ud_max_packet_sz0 # 0 \/ t_length[xfer] = ud_max_packet_sz0
         /\ C32_HasData(xfer)
         /\ ScheduleTransferCall(xfer)) =>
            /\ usb_panic' = ""
            /\ C32_Chunked(C32_DataTDs(si_pool'[Len(si_pool')].si_td, t_type[xfer]),
                           DataAddr, t_length[xfer], ud_max_packet_sz0)

C32_OddLengths == [][C32_OddStep]_vars

\* a transfer of five bytes in packets of three has been published
C32_OddWitness ==
    \E si \in DOMAIN si_pool :
        /\ t_length[si_pool[si].si_xfer] = 5
        /\ ud_max_packet_sz0 = 3
        /\ Len(C32_DataTDs(si_pool[si].si_td, t_type[si_pool[si].si_xfer])) = 2

\* consecutive TDs carry different toggles
C33_Alternates(tds) ==
    \A k \in 1..(Len(tds) - 1) : tds[k].td_data # tds[k + 1].td_data

\* the data stage of a control transfer starts with DATA1 and alternates
C33_ControlToggles(si) ==
    LET tds == C32_DataTDs(si_pool[si].si_td, TRANSFER_TYPE_CONTROL)
    IN  /\ Len(tds) >= 1 => tds[1].td_data = 1
        /\ C33_Alternates(tds)

\* only the last TD of an interrupt chain interrupts on completion
C33_InterruptIOC(si) ==
    LET tds == si_pool[si].si_td
    IN  \A k \in DOMAIN tds : TD_STATUS_IOC \in tds[k].td_status <=> k = Len(tds)

C33_Shape(si) ==
    IF t_type[si_pool[si].si_xfer] = TRANSFER_TYPE_CONTROL
    THEN C33_ControlToggles(si)
    ELSE C33_Alternates(si_pool[si].si_td) /\ C33_InterruptIOC(si)

\* C33: in every published chain consecutive data TDs carry alternating
\* toggles; the data stage of a control transfer starts with DATA1 after the
\* DATA0 of SETUP; an interrupt chain alternates the same way and has
\* interrupt-on-complete on its last TD only.
C33_Toggles == \A si \in DOMAIN si_pool : C33_Shape(si)

\* the same without the alternation of interrupt chains
C33_ControlAndIOC ==
    \A si \in DOMAIN si_pool :
        IF t_type[si_pool[si].si_xfer] = TRANSFER_TYPE_CONTROL
        THEN C33_ControlToggles(si)
        ELSE C33_InterruptIOC(si)

\* a control transfer with a data stage of two TDs has been published
C33_ControlWitness ==
    \E si \in DOMAIN si_pool :
        /\ t_type[si_pool[si].si_xfer] = TRANSFER_TYPE_CONTROL
        /\ Len(si_pool[si].si_td) = 4

\* an interrupt chain of two TDs has been published
C33_InterruptWitness ==
    \E si \in DOMAIN si_pool :
        /\ t_type[si_pool[si].si_xfer] = TRANSFER_TYPE_INTERRUPT
        /\ Len(si_pool[si].si_td) = 2

\* the items an interrupt's callbacks allocated
C34_NewItems == DOMAIN si_pool' \ DOMAIN si_pool

\* what a walk with re-arming callbacks leaves
C34_Walked(rearm) ==
    /\ usb_panic' = ""
    /\ \A si \in Range(uhci_scheduled_items) :
         IF C20_Done(si)
         THEN /\ si \notin Range(uhci_scheduled_items')
              /\ completions'[si] = completions[si] + 1
         ELSE /\ si \in Range(uhci_scheduled_items')
              /\ completions'[si] = completions[si]
    /\ \A si \in DOMAIN si_pool \ Range(uhci_scheduled_items) :
         completions'[si] = completions[si]
    /\ \A xfer \in rearm : \E si \in C34_NewItems : si_pool'[si].si_xfer = xfer
    /\ \A si \in C34_NewItems :
         /\ si_pool'[si].si_xfer \in rearm
         /\ TRANSFER_FLAG_PENDING \in t_flags'[si_pool'[si].si_xfer]
         /\ Occurrences(uhci_scheduled_items', si) = 1
         /\ completions'[si] = 0
         /\ \A k \in DOMAIN si_pool'[si].si_td :
              TD_STATUS_ACTIVE \in si_pool'[si].si_td[k].td_status
    /\ SelectSeq(uhci_scheduled_items', LAMBDA si : si \in DOMAIN si_pool)
         = SelectSeq(uhci_scheduled_items, LAMBDA si : ~C20_Done(si))

\* a walk that completes nothing changes nothing; the others are compared
C34_IrqStep ==
    \A stat \in IrqStatuses :
        (completions' # completions /\ UHCI_USBSTS_USBINT \in stat) =>
            \A rearm \in SUBSET {si_pool[si].si_xfer :
                                   si \in {sj \in Range(uhci_scheduled_items) : C20_Done(sj)}} :
                OnIRQRearm(stat, rearm) => C34_Walked(rearm)

\* C34: when completion callbacks called from OnIRQ schedule their transfer
\* again, the walk ends without a failure, completes every item that was on
\* the list and had finished exactly once and takes it off the list, leaves
\* the unfinished items in their order, and leaves every newly appended item
\* on the list once, Pending, not completed and with all its TDs Active.
C34_Rearm == [][C34_IrqStep]_vars

\* a callback appended an item while an older item was still to be walked:
\* the older item and the new one are on the list
C34_Witness ==
    /\ usb_panic = ""
    /\ Len(si_pool) > MaxItems
    /\ Len(uhci_scheduled_items) >= 2
    /\ uhci_scheduled_items[Len(uhci_scheduled_items)] > MaxItems
    /\ uhci_scheduled_items[1] <= MaxItems
    /\ \E si \in DOMAIN si_pool :
         /\ completions[si] = 1
         /\ si < uhci_scheduled_items[1]
         /\ si_pool[si].si_xfer = si_pool[Len(si_pool)].si_xfer

\* a TD of the item's chain is still to be executed
C38_SomeActive(si) ==
    \E k \in DOMAIN si_pool[si].si_td : TD_STATUS_ACTIVE \in si_pool[si].si_td[k].td_status

\* the controller stopped the chain at a TD with an error
C38_Halted(si) ==
    \E k \in DOMAIN si_pool[si].si_td : si_pool[si].si_td[k].td_status \cap TD_STATUS_ERRORS # {}

C38_CompleteStep ==
    \A si \in DOMAIN si_pool :
        completions'[si] > completions[si] => ~C38_SomeActive(si)

\* C38: an interrupt hands a transfer to Complete() only when no TD of its
\* chain is Active any more.
C38_NoActiveCompleted == [][C38_CompleteStep]_vars

\* the same, a chain the controller stopped at an error counting as done
C38_HaltedStep ==
    \A si \in DOMAIN si_pool :
        completions'[si] > completions[si] => (~C38_SomeActive(si) \/ C38_Halted(si))

C38_NoRunningCompleted == [][C38_HaltedStep]_vars

\* the chain of item si can be reached from a queue head
C39_Reachable(si) == \E qh \in QueueHeads : qh_first_td[qh] = si

C39_PublishStep ==
    \A qh \in QueueHeads :
        (qh_first_td[qh] # NULL /\ C38_SomeActive(qh_first_td[qh])) =>
            qh_first_td'[qh] = qh_first_td[qh]

\* C39: publishing a chain into a queue head leaves a chain published there
\* before, of which a TD is still Active, reachable from the queue head.
C39_KeepsPublished == [][C39_PublishStep]_vars

\* a scheduled item whose first TD is Active and whose chain no queue head
\* reaches stays as it is: it is never executed and never completed
C39_LostStep ==
    \A si \in Range(uhci_scheduled_items) :
        (~C39_Reachable(si) /\ ~C20_Done(si)) =>
            /\ si \in Range(uhci_scheduled_items')
            /\ si_pool'[si] = si_pool[si]
            /\ completions'[si] = completions[si]
            /\ \A qh \in QueueHeads : qh_first_td'[qh] # si

C39_LostForever == [][C39_LostStep]_vars

\* an item with an Active first TD is on the list and reached by no queue head
C39_Lost ==
    \E si \in Range(uhci_scheduled_items) : ~C39_Reachable(si) /\ ~C20_Done(si)

\* CancelTransfer of a Pending transfer leaves no scheduled item of it
C40_CancelStep ==
    \A xfer \in Transfers :
        (IsPending(xfer) /\ CancelTransferCall(xfer)) =>
            \A si \in Range(uhci_scheduled_items') : si_pool'[si].si_xfer # xfer

\* an interrupt completes items of Pending transfers only, and leaves the
\* result and the flags of every other transfer alone
C40_IrqStep ==
    /\ \A si \in DOMAIN si_pool :
         completions'[si] > completions[si] => IsPending(si_pool[si].si_xfer)
    /\ \A xfer \in Transfers :
         (~IsPending(xfer) /\ \A x \in Transfers : ~ScheduleTransferCall(x)) =>
             /\ t_result_length'[xfer] = t_result_length[xfer]
             /\ t_flags'[xfer] = t_flags[xfer]

\* C40: CancelTransfer of a Pending transfer takes its scheduled item off
\* the list, and no interrupt afterwards writes the result length or the
\* Error flag of the cancelled transfer or calls Complete() for it.
C40_CancelledGone == [][C40_CancelStep /\ C40_IrqStep]_vars

C40_CancelOnly == [][C40_CancelStep]_vars

C40_IrqOnly == [][C40_IrqStep]_vars

\* the dentries whose d_parent points at p
C36_Children(p) == {d \in Slots : dentries[d].d_parent = p}

C36_ParentsHeld ==
    /\ \A d \in Slots : dentries[d].d_parent # NULL => d \in Range(dcache_inuse)
    /\ \A d \in Range(dcache_inuse) :
         dentries[d].d_parent # NULL =>
             /\ dentries[d].d_refcount >= 1
             /\ dentries[d].d_parent \in Range(dcache_inuse)
             /\ dentries[dentries[d].d_parent].d_refcount
                  >= Cardinality(C36_Children(dentries[d].d_parent))

\* a dentry that is some dentry's parent stays in use and is the same entry
\* in the next state: it is not the slot a call takes over
C36_ParentStep ==
    \A p \in Slots :
        C36_Children(p) # {} =>
            /\ p \in Range(dcache_inuse')
            /\ p \notin Range(dcache_free')
            /\ reclaimed' # p
            /\ dentries'[p].d_fs = dentries[p].d_fs
            /\ dentries'[p].d_entry = dentries[p].d_entry

\* C36: every in-use dentry with a parent has a refcount of at least 1, its
\* parent is in use too and holds at least one reference for each dentry
\* that points at it; so no call evicts, purges or initialises anew a dentry
\* that is still a parent, and no d_parent refers to a slot that was reused.
C36_Parents == []C36_ParentsHeld /\ [][C36_ParentStep]_vars

\* a chain of three entries fills the cache, the last of them in a slot
\* that was taken over from an older entry
C36_Witness ==
    /\ panic = ""
    /\ dcache_free = <<>>
    /\ reclaimed # NULL
    /\ dentries[reclaimed].d_parent # NULL
    /\ dentries[dentries[reclaimed].d_parent].d_parent # NULL

\* C37: whatever faults were handled, the page list of every area holds at
\* most one vmpage for each page-aligned virtual address.
C37_OnePagePerAddress ==
    \A a \in DOMAIN va_pages :
        \A i, j \in DOMAIN va_pages[a] :
            vmpages[va_pages[a][i]].vp_vaddr = vmpages[va_pages[a][j]].vp_vaddr => i = j


====
